---- MODULE Spec2Model ----
(***************************************************************************)
(* Model of prime-brief: the research workflow of CrewService              *)
(* (app/services/crew_service.py) and the cached model handle of           *)
(* AgentFactory (app/agents/base_agent.py).                                *)
(*                                                                         *)
(* Optional values follow Python: None is the empty tuple, a present value *)
(* x is the one-element tuple <<x>>.  An exception is represented by its   *)
(* message text str(e); every exception of the model derives from          *)
(* Exception (the class the workflow's handler names).                     *)
(***************************************************************************)
EXTENDS Integers, Sequences, FiniteSets, TLC

\* ---------------------------------------------------------------- bounds
\* longest tasks_output list the engine hands back
MaxOutputs == 4
\* largest reading of the wall clock
MaxClock == 3
\* longest recorded sequence of get_llm / reset_llm calls
MaxCalls == 6

\* ------------------------------------------------------------- constants
\* the tasks handed to Crew(...): research, summarization, email
NumTasks == 3

None == << >>
Some(x) == << x >>

\* CrewService instances (one workflow run each) and get_llm callers
Runs == {1, 2}
Callers == {1, 2}

\* raw texts of task outputs; the empty text is a legal raw output
Texts == {"", "a", "b"}
\* message texts of the exceptions the collaborators raise; Exception() has
\* the empty message
ExcMsgs == {"", "boom"}

\* message of the TypeError Python raises when None is called
NotCallable == "'NoneType' object is not callable"
\* message of the IndexError Python raises for a list index out of range
IndexErrorMsg == "list index out of range"

SeqsUpTo(S, n) == UNION {[1..k -> S] : k \in 0..n}

\* the milestones of execute_research_workflow, in program order
Milestones == <<10, 25, 40, 50, 90, 100>>

VARIABLES
    now,                \* the wall clock datetime.now() reads
    engine,             \* what the collaborators of this process do when called
    llm_instance,       \* AgentFactory._llm_instance
    llm_built,          \* number of LLM(...) constructions so far
    pc,                 \* position of each run in execute_research_workflow
    progress_callback,  \* CrewService.progress_callback of each run
    start_time,         \* local start_time
    reported,           \* percentages the subscriber was invoked with
    progress_log,       \* percentages TaskLogger.progress logged
    kickoffs,           \* number of crew.kickoff() calls of the run
    stages_run,         \* stages the engine completed inside the current call
    crew_result,        \* local result: what crew.kickoff() returned
    locals,             \* research_output, summary_output, email_output, execution_time
    exc,                \* the exception in flight to the handler, if any
    raised_at,          \* where that exception was raised
    result,             \* the ResearchResult returned to the caller
    cpc,                \* position of each caller in get_llm / reset_llm
    llm_local,          \* the LLM(...) a caller has built and not yet stored
    llm_calls,          \* completed get_llm / reset_llm calls, in order
    settings,           \* the cached Settings() of the process
    report_format,      \* argument report_format of each run
    agents,             \* locals researcher, summarizer, email_agent
    tasks,              \* locals research_task, summarization_task, email_task
    crew,               \* local crew
    vcall,              \* a call of a function examined alone: its name and arguments
    vret,               \* what that call returned
    fpc,                \* position of the script run in main()
    interactions,       \* script runs of the session so far
    config,             \* what render_config_panel returned
    run_button,         \* what st.button returned
    missing_keys,       \* local missing_keys of check_configuration
    email_result,       \* local email_result of run_research
    topic_result,       \* local topic_result of run_research
    session_state,      \* st.session_state
    shown,              \* st.error / warning messages of the script run
    workflow_calls      \* keyword arguments of each execute_research_workflow call

vars == <<now, engine, llm_instance, llm_built, pc, progress_callback, start_time,
          reported, progress_log, kickoffs, stages_run, crew_result, locals, exc,
          raised_at, result, cpc, llm_local, llm_calls, settings, report_format,
          agents, tasks, crew, vcall, vret, fpc, interactions, config, run_button,
          missing_keys, email_result, topic_result, session_state, shown,
          workflow_calls>>

runVars == <<pc, progress_callback, start_time, reported, progress_log, kickoffs,
             stages_run, crew_result, locals, exc, raised_at, result>>

llmCallVars == <<cpc, llm_local, llm_calls>>

buildVars == <<agents, tasks, crew>>

envVars == <<engine, settings, report_format>>

frontVars == <<fpc, interactions, config, run_button, missing_keys, email_result,
               topic_result, session_state, shown, workflow_calls>>

uiVars == <<vcall, vret, frontVars>>

\* --------------------------------------------------- the collaborators
\* What the code outside this repository does in one experiment: the role
\* and task factories and Crew(...) either succeed or raise; crew.kickoff()
\* completes some stages and then raises, or returns an envelope whose
\* tasks_output is missing (None) or a list of raw texts.
ReturnScripts ==
    {[fail_at |-> "none", msg |-> "", stages |-> Len(s), tasks_output |-> Some(s)] :
        s \in SeqsUpTo(Texts, MaxOutputs)}
    \cup {[fail_at |-> "none", msg |-> "", stages |-> NumTasks, tasks_output |-> None]}

FailScripts ==
    {[fail_at |-> f, msg |-> m, stages |-> 0, tasks_output |-> None] :
        f \in {"agents", "tasks", "crew"}, m \in ExcMsgs}
    \cup {[fail_at |-> "kickoff", msg |-> m, stages |-> k, tasks_output |-> None] :
        k \in 0..NumTasks, m \in ExcMsgs}

EngineScripts == ReturnScripts \cup FailScripts

\* ------------------------------------------------------- ResearchResult
ResearchResultDefaults ==
    [research_output |-> None, summary_output |-> None, email_output |-> None,
     error_message |-> None, execution_time |-> 0]

\* the dataclass constructor: the keyword arguments given, defaults for the
\* rest, timestamp from datetime.now()
ResearchResult(kw, clock) == kw @@ ResearchResultDefaults @@ [timestamp |-> clock]

\* a handler that reports a fixed text
StrGeneric(e) == "Workflow failed"

\* str(e)
Str(e) == e[1]

\* ------------------------------------------------------ _update_progress
ProgressPcs == {"progress_10", "progress_25", "progress_40", "progress_50",
                "progress_90", "progress_100"}

\* the 90 call site passing the percentage of the one before it
PercentAtStale(at) ==
    CASE at = "progress_10" -> 10
      [] at = "progress_25" -> 25
      [] at = "progress_40" -> 40
      [] at = "progress_50" -> 50
      [] at = "progress_90" -> 50
      [] at = "progress_100" -> 100

PercentAt(at) ==
    CASE at = "progress_10" -> 10
      [] at = "progress_25" -> 25
      [] at = "progress_40" -> 40
      [] at = "progress_50" -> 50
      [] at = "progress_90" -> 90
      [] at = "progress_100" -> 100

\* the statement that follows each _update_progress call
AfterProgress(at) ==
    CASE at = "progress_10" -> "create_agents"
      [] at = "progress_25" -> "create_tasks"
      [] at = "progress_40" -> "create_crew"
      [] at = "progress_50" -> "kickoff"
      [] at = "progress_90" -> "extract"
      [] at = "progress_100" -> "return"

\* a call of the subscriber that is not guarded by the test for its presence
HasSubscriberUnchecked(cb) == TRUE

\* if self.progress_callback:
HasSubscriber(cb) == cb # "None"

\* self.progress_callback(percentage, message): None when it returns, the
\* exception when it raises; calling None raises TypeError
CallbackOutcomes(cb) ==
    IF cb = "None" THEN {Some(NotCallable)}
    ELSE {None} \cup {Some(m) : m \in ExcMsgs}

\* ------------------------------------------------- try / except Exception
\* the steps inside the try block of execute_research_workflow
TryBlock == {"callback", "agents", "tasks", "crew", "kickoff", "extract"}

\* a try block that wraps the engine call alone
OnRaiseEngineOnly(where) == IF where = "kickoff" THEN "except" ELSE "propagated"

\* where control goes when a step raises: the handler when the step is in
\* the try block, out of the method otherwise
OnRaise(where) == IF where \in TryBlock THEN "except" ELSE "propagated"

\* a handler that calls the engine a second time before giving up
AfterKickoffRaiseRetry(k) == IF k < 2 THEN "kickoff" ELSE "except"

\* where control goes when crew.kickoff() raises, after k calls of it
AfterKickoffRaise(k) == OnRaise("kickoff")

Raise(r, where, e) ==
    /\ pc' = [pc EXCEPT ![r] = IF where = "kickoff" THEN AfterKickoffRaise(kickoffs[r])
                               ELSE OnRaise(where)]
    /\ exc' = [exc EXCEPT ![r] = e]
    /\ raised_at' = [raised_at EXCEPT ![r] = where]

\* ----------------------------------------------------- output extraction
\* hasattr(result, 'tasks_output') and result.tasks_output
TasksOutputPresent(res) ==
    /\ res.tasks_output # None
    /\ Len(res.tasks_output[1]) > 0

\* result.tasks_output[i].raw
RawAt(res, i) == Some(res.tasks_output[1][i + 1])

\* if len(result.tasks_output) > i: ... = result.tasks_output[i].raw
ExtractSlot(res, i) == IF Len(res.tasks_output[1]) > i THEN RawAt(res, i) ELSE None

NoOutputs == [raises |-> None, research_output |-> None, summary_output |-> None,
              email_output |-> None]

\* an extraction that reads outputs 0 and 1 into each other's slot
ExtractedSwapped(res) ==
    IF TasksOutputPresent(res)
    THEN [raises |-> None,
          research_output |-> ExtractSlot(res, 1),
          summary_output |-> ExtractSlot(res, 0),
          email_output |-> ExtractSlot(res, 2)]
    ELSE NoOutputs

\* an extraction that indexes all three outputs without the length guards
ExtractedUnguarded(res) ==
    IF TasksOutputPresent(res)
    THEN IF Len(res.tasks_output[1]) < NumTasks
         THEN [NoOutputs EXCEPT !.raises = Some(IndexErrorMsg)]
         ELSE [raises |-> None,
               research_output |-> RawAt(res, 0),
               summary_output |-> RawAt(res, 1),
               email_output |-> RawAt(res, 2)]
    ELSE NoOutputs

\* the extraction block: the three locals, and the exception it raises if any
Extracted(res) ==
    IF TasksOutputPresent(res)
    THEN [raises |-> None,
          research_output |-> ExtractSlot(res, 0),
          summary_output |-> ExtractSlot(res, 1),
          email_output |-> ExtractSlot(res, 2)]
    ELSE NoOutputs

\* (datetime.now() - start_time).total_seconds()
Elapsed(clock, start) == clock - start

\* return ResearchResult(success=True, ...)
SuccessRecord(l, clock) ==
    ResearchResult([success |-> TRUE,
                    research_output |-> l.research_output,
                    summary_output |-> l.summary_output,
                    email_output |-> l.email_output,
                    execution_time |-> l.execution_time], clock)

\* a handler that passes on the outputs already extracted
FailureRecordKeepingOutputs(e, elapsed, l, clock) ==
    ResearchResult([success |-> FALSE,
                    research_output |-> l.research_output,
                    summary_output |-> l.summary_output,
                    email_output |-> l.email_output,
                    error_message |-> Some(Str(e)),
                    execution_time |-> elapsed], clock)

\* return ResearchResult(success=False, ...) of the handler; l are the locals
\* in scope there
FailureRecord(e, elapsed, l, clock) ==
    ResearchResult([success |-> FALSE,
                    error_message |-> Some(Str(e)),
                    execution_time |-> elapsed], clock)

\* ------------------------------------------------------------- get_llm
\* if cls._llm_instance is None
CacheEmpty(inst) == inst = None

\* the handle the n-th LLM(...) construction yields
NewLlm(n) == Some(n)

\* cls._llm_instance after one whole get_llm call
LlmAfterGet(inst, built) == IF CacheEmpty(inst) THEN NewLlm(built + 1) ELSE inst
BuiltAfterGet(inst, built) == IF CacheEmpty(inst) THEN built + 1 ELSE built


\* ------------------------------------------------------------- Settings
\* max_agent_iterations: int = Field(5, ge=1, le=20)
DefaultAgentIterations == 5
MinAgentIterations == 1
MaxAgentIterations == 20

\* Settings() of an environment that sets none of the variables
DefaultSettings ==
    [max_agent_iterations |-> DefaultAgentIterations,
     llm_provider |-> "gemini",
     google_api_key |-> None,
     openai_api_key |-> None,
     serper_api_key |-> None,
     email_user |-> None,
     email_pass |-> None]

\* every value of max_agent_iterations the validation of the field lets
\* through
SettingsSpace ==
    {[DefaultSettings EXCEPT !.max_agent_iterations = n] :
        n \in MinAgentIterations..MaxAgentIterations}

\* truth value of an Optional[str]
TruthyStr(k) == k # None /\ k # Some("")

\* Settings.current_api_key
current_api_key(s) ==
    IF s.llm_provider = "openai" THEN s.openai_api_key ELSE s.google_api_key

\* Settings.validate_required_keys
validate_required_keys(s) ==
    [llm |-> current_api_key(s) # None,
     search |-> s.serper_api_key # None,
     email |-> s.email_user # None /\ s.email_pass # None]

\* Settings.get_missing_keys
get_missing_keys(s) ==
    LET validation == validate_required_keys(s)
    IN  (IF ~validation.llm
         THEN <<IF s.llm_provider = "openai" THEN "OPENAI_API_KEY" ELSE "GOOGLE_API_KEY">>
         ELSE << >>)
        \o (IF ~validation.search THEN <<"SERPER_API_KEY">> ELSE << >>)
        \o (IF ~validation.email /\ ~TruthyStr(s.email_user)
            THEN <<"EMAIL_USER">> ELSE << >>)
        \o (IF ~validation.email /\ ~TruthyStr(s.email_pass)
            THEN <<"EMAIL_PASS">> ELSE << >>)

\* truth value of a Python int, and `a or b` on ints
Truthy(n) == n # 0
PyOr(a, b) == IF Truthy(a) THEN a ELSE b

\* d.get(k, default)
DictGet(d, k, default) == IF k \in DOMAIN d THEN d[k] ELSE default

\* --------------------------------------------------------------- agents
FormatKeys == {"Summary Report", "Detailed Analysis", "Executive Brief"}

\* values of report_format a caller can pass: the three of the selectbox and
\* strings that are no key of the tables
ReportFormats == FormatKeys \cup {"summary report", ""}

\* the module-level table of summarizer.py; a text is named by its table and key
FORMAT_REQUIREMENTS == [k \in FormatKeys |-> <<"FORMAT_REQUIREMENTS", k>>]

\* Agent(...) of AgentFactory.create_agent, with the handle get_llm returned
create_agent(agent_config, llm, s) ==
    [role |-> agent_config.role,
     backstory |-> agent_config.backstory,
     tools |-> agent_config.tools,
     llm |-> llm,
     max_iter |-> PyOr(s.max_agent_iterations, agent_config.max_iter),
     allow_delegation |-> agent_config.allow_delegation]

\* the AgentConfig each role constructor builds
researcher_config ==
    [role |-> "Senior Web Research Specialist",
     backstory |-> <<"RESEARCHER_BACKSTORY">>,
     tools |-> <<"search_tool">>,
     max_iter |-> 5,
     allow_delegation |-> FALSE]

summarizer_config(fmt) ==
    [role |-> "Content Analysis & Summarization Expert",
     backstory |-> <<"SUMMARIZER_BACKSTORY",
                     DictGet(FORMAT_REQUIREMENTS, fmt,
                             FORMAT_REQUIREMENTS["Summary Report"])>>,
     tools |-> << >>,
     max_iter |-> 3,
     allow_delegation |-> FALSE]

email_config ==
    [role |-> "Email Communication Specialist",
     backstory |-> <<"EMAIL_AGENT_BACKSTORY">>,
     tools |-> <<"email_tool">>,
     max_iter |-> 2,
     allow_delegation |-> FALSE]

create_researcher_agent(llm, s) == create_agent(researcher_config, llm, s)

create_summarizer_agent(fmt, llm, s) == create_agent(summarizer_config(fmt), llm, s)

create_email_agent(llm, s) == create_agent(email_config, llm, s)

\* ---------------------------------------------------------------- tasks
\* the table local to create_summarization_task
format_instructions == [k \in FormatKeys |-> <<"format_instructions", k>>]

\* Task(description, expected_output, agent): no context argument
create_research_task(agent) ==
    [description |-> <<"research">>, agent |-> agent, context |-> None]

create_summarization_taskOtherDefault(agent, fmt, research_task) ==
    [description |-> <<"summarize",
                       DictGet(format_instructions, fmt,
                               format_instructions["Detailed Analysis"])>>,
     agent |-> agent,
     context |-> Some(<<research_task>>)]

create_summarization_task(agent, fmt, research_task) ==
    [description |-> <<"summarize",
                       DictGet(format_instructions, fmt,
                               format_instructions["Summary Report"])>>,
     agent |-> agent,
     context |-> Some(<<research_task>>)]

create_email_task(agent, summarization_task) ==
    [description |-> <<"deliver">>,
     agent |-> agent,
     context |-> Some(<<summarization_task>>)]

\* Crew(agents=[researcher, summarizer, email_agent],
\*      tasks=[research_task, summarization_task, email_task], ...)
CrewDeliverFirst(a, t) ==
    [agents |-> <<a.researcher, a.summarizer, a.email_agent>>,
     tasks |-> <<t.email_task, t.research_task, t.summarization_task>>]

Crew(a, t) ==
    [agents |-> <<a.researcher, a.summarizer, a.email_agent>>,
     tasks |-> <<t.research_task, t.summarization_task, t.email_task>>]

\* -------------------------------------------------------------- strings
\* A Python str is the sequence of its characters, each a one-character
\* string.
LowerLetters == <<"a", "b", "c", "d", "e", "f", "g", "h", "i", "j", "k", "l", "m",
                 "n", "o", "p", "q", "r", "s", "t", "u", "v", "w", "x", "y", "z">>
UpperLetters == <<"A", "B", "C", "D", "E", "F", "G", "H", "I", "J", "K", "L", "M",
                 "N", "O", "P", "Q", "R", "S", "T", "U", "V", "W", "X", "Y", "Z">>
Digits == {"0", "1", "2", "3", "4", "5", "6", "7", "8", "9"}

\* characters str.strip() removes and \s matches
Whitespace == {" ", "\t", "\n"}

IsLetter(c) == \E i \in 1..Len(LowerLetters) : c = LowerLetters[i] \/ c = UpperLetters[i]

\* \w
IsWordChar(c) == IsLetter(c) \/ c \in Digits \/ c = "_"

lower_char(c) ==
    IF \E i \in 1..Len(UpperLetters) : c = UpperLetters[i]
    THEN LowerLetters[CHOOSE i \in 1..Len(UpperLetters) : c = UpperLetters[i]]
    ELSE c

\* str.lower()
lower(s) == [i \in 1..Len(s) |-> lower_char(s[i])]

SetMin(S) == CHOOSE m \in S : \A n \in S : m <= n
SetMax(S) == CHOOSE m \in S : \A n \in S : m >= n

\* str.strip()
strip(s) ==
    LET kept == {i \in 1..Len(s) : s[i] \notin Whitespace}
    IN  IF kept = {} THEN << >> ELSE SubSeq(s, SetMin(kept), SetMax(kept))

\* sub occurs in s at position i
OccursAt(s, sub, i) ==
    /\ i + Len(sub) - 1 <= Len(s)
    /\ \A k \in 1..Len(sub) : s[i + k - 1] = sub[k]

\* str.find(sub) + 1: position of the first occurrence, 0 if there is none
Find(s, sub) ==
    LET at == {i \in 1..Len(s) : OccursAt(s, sub, i)}
    IN  IF at = {} THEN 0 ELSE SetMin(at)

\* str.replace(old, new) for a non-empty old: every occurrence, left to right
RECURSIVE replace(_, _, _)
replace(s, old, new) ==
    LET p == Find(s, old)
    IN  IF p = 0 THEN s
        ELSE SubSeq(s, 1, p - 1) \o new
             \o replace(SubSeq(s, p + Len(old), Len(s)), old, new)

\* str.split(sep) for a one-character sep
RECURSIVE split(_, _)
split(s, sep) ==
    LET p == Find(s, <<sep>>)
    IN  IF p = 0 THEN <<s>>
        ELSE <<SubSeq(s, 1, p - 1)>> \o split(SubSeq(s, p + 1, Len(s)), sep)

\* re.sub(r'\s+', ' ', s): every maximal run of whitespace becomes one space
\* (a space where the run starts, nothing for the rest of the run)
collapse_whitespace(s) ==
    LET out == [i \in 1..Len(s) |->
                  IF s[i] \notin Whitespace THEN s[i]
                  ELSE IF i > 1 /\ s[i - 1] \in Whitespace THEN "" ELSE " "]
    IN  SelectSeq(out, LAMBDA c : c # "")

\* the positions `$` matches at: the end, and before a final newline
EndPositions(s) ==
    {Len(s)} \cup (IF Len(s) > 0 /\ s[Len(s)] = "\n" THEN {Len(s) - 1} ELSE {})

\* ----------------------------------------------------------- validators
\* ValidationResult(is_valid, value, error); a message is the sequence of the
\* parts of its (f-)string
ValidationResult(is_valid, value, error) ==
    [is_valid |-> is_valid, value |-> value, error |-> error]

\* [a-zA-Z0-9._%+-]
IsLocalChar(c) == IsLetter(c) \/ c \in Digits \/ c \in {".", "_", "%", "+", "-"}

\* [a-zA-Z0-9.-]
IsDomainChar(c) == IsLetter(c) \/ c \in Digits \/ c \in {".", "-"}

\* re.match(r'^[a-zA-Z0-9._%+-]+@[a-zA-Z0-9.-]+\.[a-zA-Z]{2,}$', s)
EmailPatternMatches(s) ==
    \E at \in 2..Len(s) :
        /\ s[at] = "@"
        /\ \A i \in 1..(at - 1) : IsLocalChar(s[i])
        /\ \E dot \in (at + 2)..Len(s) :
              /\ s[dot] = "."
              /\ \A i \in (at + 1)..(dot - 1) : IsDomainChar(s[i])
              /\ \E end \in EndPositions(s) :
                    /\ end - dot >= 2
                    /\ \A i \in (dot + 1)..end : IsLetter(s[i])

gmail_com == <<"g", "m", "a", "i", "l", ".", "c", "o", "m">>
yahoo_com == <<"y", "a", "h", "o", "o", ".", "c", "o", "m">>
hotmail_com == <<"h", "o", "t", "m", "a", "i", "l", ".", "c", "o", "m">>

common_domains ==
    (<<"g", "m", "i", "a", "l", ".", "c", "o", "m">> :> gmail_com)
    @@ (<<"g", "m", "a", "l", ".", "c", "o", "m">> :> gmail_com)
    @@ (<<"g", "a", "m", "i", "l", ".", "c", "o", "m">> :> gmail_com)
    @@ (<<"y", "a", "h", "o", ".", "c", "o", "m">> :> yahoo_com)
    @@ (<<"h", "o", "t", "m", "a", "l", ".", "c", "o", "m">> :> hotmail_com)

validate_emailKeepCase(email) ==
    IF email = << >>
    THEN ValidationResult(FALSE, << >>, Some(<<"Email address is required">>))
    ELSE LET e == strip(email)
         IN  IF ~EmailPatternMatches(e)
             THEN ValidationResult(FALSE, e,
                    Some(<<"Invalid email format. Please enter a valid email address.">>))
             ELSE LET domain == split(e, "@")[2]
                  IN  IF domain \in DOMAIN common_domains
                      THEN ValidationResult(FALSE, e,
                             Some(<<"Did you mean '",
                                    replace(e, domain, common_domains[domain]), "'?">>))
                      ELSE ValidationResult(TRUE, e, None)

validate_email(email) ==
    IF email = << >>
    THEN ValidationResult(FALSE, << >>, Some(<<"Email address is required">>))
    ELSE LET e == lower(strip(email))
         IN  IF ~EmailPatternMatches(e)
             THEN ValidationResult(FALSE, e,
                    Some(<<"Invalid email format. Please enter a valid email address.">>))
             ELSE LET domain == split(e, "@")[2]
                  IN  IF domain \in DOMAIN common_domains
                      THEN ValidationResult(FALSE, e,
                             Some(<<"Did you mean '",
                                    replace(e, domain, common_domains[domain]), "'?">>))
                      ELSE ValidationResult(TRUE, e, None)

ContainsCaseSensitive(s, sub) == Find(s, sub) # 0

\* re.search(pattern, topic, re.IGNORECASE) for the literal patterns
ContainsIgnoreCase(s, sub) == Find(lower(s), sub) # 0

\* re.search(r'on\w+\s*=', topic, re.IGNORECASE)
ContainsHandler(s) ==
    \E i \in 1..Len(s) :
        /\ i + 1 <= Len(s)
        /\ lower_char(s[i]) = "o"
        /\ lower_char(s[i + 1]) = "n"
        /\ \E w \in (i + 2)..Len(s) :
              /\ \A k \in (i + 2)..w : IsWordChar(s[k])
              /\ \E eq \in (w + 1)..Len(s) :
                    /\ s[eq] = "="
                    /\ \A k \in (w + 1)..(eq - 1) : s[k] \in Whitespace

dangerous_patterns(s) ==
    \/ ContainsIgnoreCase(s, <<"<", "s", "c", "r", "i", "p", "t">>)
    \/ ContainsIgnoreCase(s, <<"j", "a", "v", "a", "s", "c", "r", "i", "p", "t", ":">>)
    \/ ContainsHandler(s)

\* the defaults of validate_topic
DefaultMinLength == 5
DefaultMaxLength == 500

validate_topicOffByOne(topic, min_length, max_length) ==
    IF topic = << >>
    THEN ValidationResult(FALSE, << >>, Some(<<"Research topic is required">>))
    ELSE LET t == collapse_whitespace(strip(topic))
         IN  IF Len(t) <= min_length
             THEN ValidationResult(FALSE, t,
                    Some(<<"Topic must be at least ", min_length, " characters long">>))
             ELSE IF Len(t) > max_length
             THEN ValidationResult(FALSE, t,
                    Some(<<"Topic must be less than ", max_length, " characters">>))
             ELSE IF dangerous_patterns(t)
             THEN ValidationResult(FALSE, t, Some(<<"Topic contains invalid characters">>))
             ELSE ValidationResult(TRUE, t, None)


validate_topic(topic, min_length, max_length) ==
    IF topic = << >>
    THEN ValidationResult(FALSE, << >>, Some(<<"Research topic is required">>))
    ELSE LET t == collapse_whitespace(strip(topic))
         IN  IF Len(t) < min_length
             THEN ValidationResult(FALSE, t,
                    Some(<<"Topic must be at least ", min_length, " characters long">>))
             ELSE IF Len(t) > max_length
             THEN ValidationResult(FALSE, t,
                    Some(<<"Topic must be less than ", max_length, " characters">>))
             ELSE IF dangerous_patterns(t)
             THEN ValidationResult(FALSE, t, Some(<<"Topic contains invalid characters">>))
             ELSE ValidationResult(TRUE, t, None)


\* ------------------------------------------------------------ the state
LocalsInit == [research_output |-> None, summary_output |-> None,
               email_output |-> None, execution_time |-> 0]

\* CrewService(progress_callback=cb) for the runs in `active`; the other run
\* of the process is never built
InitRuns(active) ==
    /\ now = 0
    /\ llm_instance = None
    /\ llm_built = 0
    /\ pc = [r \in Runs |-> IF r \in active THEN "idle" ELSE "absent"]
    /\ start_time = [r \in Runs |-> 0]
    /\ reported = [r \in Runs |-> << >>]
    /\ progress_log = [r \in Runs |-> << >>]
    /\ kickoffs = [r \in Runs |-> 0]
    /\ stages_run = [r \in Runs |-> 0]
    /\ crew_result = [r \in Runs |-> None]
    /\ locals = [r \in Runs |-> LocalsInit]
    /\ exc = [r \in Runs |-> None]
    /\ raised_at = [r \in Runs |-> "none"]
    /\ result = [r \in Runs |-> None]
    /\ agents = [r \in Runs |-> None]
    /\ tasks = [r \in Runs |-> None]
    /\ crew = [r \in Runs |-> None]

\* the process runs with the default Settings() and every run is called with
\* the default report_format
InitDefaults ==
    /\ settings = DefaultSettings
    /\ report_format = [r \in Runs |-> "Summary Report"]

\* no validator is called
InitNoValidation ==
    /\ vcall = None
    /\ vret = None

\* no browser session: main() never runs
InitNoFrontEnd ==
    /\ fpc = "absent"
    /\ interactions = 0
    /\ config = None
    /\ run_button = FALSE
    /\ missing_keys = None
    /\ email_result = None
    /\ topic_result = None
    /\ session_state = [result |-> None, topic |-> None]
    /\ shown = << >>
    /\ workflow_calls = << >>

\* the threads of the process that call get_llm / reset_llm directly
InitCallers(active) ==
    /\ cpc = [c \in Callers |-> IF c \in active THEN "idle" ELSE "absent"]
    /\ llm_local = [c \in Callers |-> None]
    /\ llm_calls = << >>

\* one CrewService, built with or without a subscriber
Init ==
    /\ InitNoValidation
    /\ InitNoFrontEnd
    /\ InitRuns({1})
    /\ InitCallers({})
    /\ InitDefaults
    /\ engine \in EngineScripts
    /\ progress_callback \in [Runs -> {"None", "callable"}]
    /\ progress_callback[2] = "None"

\* ------------------------------------------- execute_research_workflow
\* start_time = datetime.now(); self._task_logger.start(...)
Begin(r) ==
    /\ pc[r] = "idle"
    /\ start_time' = [start_time EXCEPT ![r] = now]
    /\ pc' = [pc EXCEPT ![r] = "progress_10"]
    /\ UNCHANGED <<now, envVars, llm_instance, llm_built, progress_callback, reported,
                   progress_log, kickoffs, stages_run, crew_result, locals, exc,
                   raised_at, result, llmCallVars, buildVars, uiVars>>

\* self._update_progress(percentage, message), at each of the six call sites
UpdateProgress(r) ==
    /\ pc[r] \in ProgressPcs
    /\ IF HasSubscriber(progress_callback[r])
       THEN \E o \in CallbackOutcomes(progress_callback[r]) :
              /\ reported' = [reported EXCEPT ![r] = Append(@, PercentAt(pc[r]))]
              /\ IF o = None
                 THEN /\ progress_log' = [progress_log EXCEPT
                                             ![r] = Append(@, PercentAt(pc[r]))]
                      /\ pc' = [pc EXCEPT ![r] = AfterProgress(pc[r])]
                      /\ UNCHANGED <<exc, raised_at>>
                 ELSE /\ Raise(r, "callback", o)
                      /\ UNCHANGED progress_log
       ELSE /\ progress_log' = [progress_log EXCEPT ![r] = Append(@, PercentAt(pc[r]))]
            /\ pc' = [pc EXCEPT ![r] = AfterProgress(pc[r])]
            /\ UNCHANGED <<reported, exc, raised_at>>
    /\ UNCHANGED <<now, envVars, llm_instance, llm_built, progress_callback, start_time,
                   kickoffs, stages_run, crew_result, locals, result, llmCallVars, buildVars, uiVars>>

\* create_researcher_agent, create_summarizer_agent, create_email_agent: each
\* goes through AgentFactory.create_agent and so through get_llm; a factory
\* that raises does so before or after the handle was cached
CreateAgents(r) ==
    /\ pc[r] = "create_agents"
    /\ IF engine.fail_at = "agents"
       THEN /\ Raise(r, "agents", Some(engine.msg))
            /\ \E cached \in BOOLEAN :
                 /\ llm_instance' = IF cached THEN LlmAfterGet(llm_instance, llm_built)
                                    ELSE llm_instance
                 /\ llm_built' = IF cached THEN BuiltAfterGet(llm_instance, llm_built)
                                 ELSE llm_built
            /\ UNCHANGED agents
       ELSE /\ pc' = [pc EXCEPT ![r] = "progress_25"]
            /\ llm_instance' = LlmAfterGet(llm_instance, llm_built)
            /\ llm_built' = BuiltAfterGet(llm_instance, llm_built)
            /\ agents' = [agents EXCEPT ![r] = Some(
                   [researcher |-> create_researcher_agent(llm_instance', settings),
                    summarizer |-> create_summarizer_agent(report_format[r],
                                                           llm_instance', settings),
                    email_agent |-> create_email_agent(llm_instance', settings)])]
            /\ UNCHANGED <<exc, raised_at>>
    /\ UNCHANGED <<now, envVars, progress_callback, start_time, reported, progress_log,
                   kickoffs, stages_run, crew_result, locals, result, llmCallVars,
                   tasks, crew, uiVars>>

\* create_research_task, create_summarization_task, create_email_task
CreateTasks(r) ==
    /\ pc[r] = "create_tasks"
    /\ IF engine.fail_at = "tasks"
       THEN /\ Raise(r, "tasks", Some(engine.msg))
            /\ UNCHANGED tasks
       ELSE /\ pc' = [pc EXCEPT ![r] = "progress_40"]
            /\ LET research_task == create_research_task(agents[r][1].researcher)
                   summarization_task ==
                       create_summarization_task(agents[r][1].summarizer,
                                                 report_format[r], research_task)
                   email_task == create_email_task(agents[r][1].email_agent,
                                                   summarization_task)
               IN  tasks' = [tasks EXCEPT ![r] = Some(
                       [research_task |-> research_task,
                        summarization_task |-> summarization_task,
                        email_task |-> email_task])]
            /\ UNCHANGED <<exc, raised_at>>
    /\ UNCHANGED <<now, envVars, llm_instance, llm_built, progress_callback, start_time,
                   reported, progress_log, kickoffs, stages_run, crew_result, locals,
                   result, llmCallVars, agents, crew, uiVars>>

\* settings = get_settings(); crew = Crew(...)
CreateCrew(r) ==
    /\ pc[r] = "create_crew"
    /\ IF engine.fail_at = "crew"
       THEN /\ Raise(r, "crew", Some(engine.msg))
            /\ UNCHANGED crew
       ELSE /\ pc' = [pc EXCEPT ![r] = "progress_50"]
            /\ crew' = [crew EXCEPT ![r] = Some(Crew(agents[r][1], tasks[r][1]))]
            /\ UNCHANGED <<exc, raised_at>>
    /\ UNCHANGED <<now, envVars, llm_instance, llm_built, progress_callback, start_time,
                   reported, progress_log, kickoffs, stages_run, crew_result, locals,
                   result, llmCallVars, agents, tasks, uiVars>>

\* result = crew.kickoff(): the call enters the engine
KickoffCall(r) ==
    /\ pc[r] = "kickoff"
    /\ pc' = [pc EXCEPT ![r] = "engine"]
    /\ kickoffs' = [kickoffs EXCEPT ![r] = @ + 1]
    /\ stages_run' = [stages_run EXCEPT ![r] = 0]
    /\ UNCHANGED <<now, envVars, llm_instance, llm_built, progress_callback, start_time,
                   reported, progress_log, crew_result, locals, exc, raised_at, result,
                   llmCallVars, buildVars, uiVars>>

\* the engine completes one more stage while the caller is blocked in kickoff
EngineStage(r) ==
    /\ pc[r] = "engine"
    /\ stages_run[r] < engine.stages
    /\ stages_run' = [stages_run EXCEPT ![r] = @ + 1]
    /\ UNCHANGED <<now, envVars, llm_instance, llm_built, pc, progress_callback,
                   start_time, reported, progress_log, kickoffs, crew_result, locals,
                   exc, raised_at, result, llmCallVars, buildVars, uiVars>>

\* crew.kickoff() returns its envelope
KickoffReturn(r) ==
    /\ pc[r] = "engine"
    /\ stages_run[r] = engine.stages
    /\ engine.fail_at # "kickoff"
    /\ crew_result' = [crew_result EXCEPT
                          ![r] = Some([tasks_output |-> engine.tasks_output])]
    /\ pc' = [pc EXCEPT ![r] = "progress_90"]
    /\ UNCHANGED <<now, envVars, llm_instance, llm_built, progress_callback, start_time,
                   reported, progress_log, kickoffs, stages_run, locals, exc, raised_at,
                   result, llmCallVars, buildVars, uiVars>>

\* crew.kickoff() raises
KickoffRaise(r) ==
    /\ pc[r] = "engine"
    /\ stages_run[r] = engine.stages
    /\ engine.fail_at = "kickoff"
    /\ Raise(r, "kickoff", Some(engine.msg))
    /\ UNCHANGED <<now, envVars, llm_instance, llm_built, progress_callback, start_time,
                   reported, progress_log, kickoffs, stages_run, crew_result, locals,
                   result, llmCallVars, buildVars, uiVars>>

\* the extraction block and execution_time = (datetime.now() - start_time)...
ExtractOutputs(r) ==
    /\ pc[r] = "extract"
    /\ LET x == Extracted(crew_result[r][1]) IN
         IF x.raises # None
         THEN /\ Raise(r, "extract", x.raises)
              /\ UNCHANGED locals
         ELSE /\ locals' = [locals EXCEPT
                               ![r] = [research_output |-> x.research_output,
                                       summary_output |-> x.summary_output,
                                       email_output |-> x.email_output,
                                       execution_time |-> Elapsed(now, start_time[r])]]
              /\ pc' = [pc EXCEPT ![r] = "progress_100"]
              /\ UNCHANGED <<exc, raised_at>>
    /\ UNCHANGED <<now, envVars, llm_instance, llm_built, progress_callback, start_time,
                   reported, progress_log, kickoffs, stages_run, crew_result, result,
                   llmCallVars, buildVars, uiVars>>

\* self._task_logger.success(...); return ResearchResult(success=True, ...)
ReturnSuccess(r) ==
    /\ pc[r] = "return"
    /\ result' = [result EXCEPT ![r] = Some(SuccessRecord(locals[r], now))]
    /\ pc' = [pc EXCEPT ![r] = "done"]
    /\ UNCHANGED <<now, envVars, llm_instance, llm_built, progress_callback, start_time,
                   reported, progress_log, kickoffs, stages_run, crew_result, locals,
                   exc, raised_at, llmCallVars, buildVars, uiVars>>

\* except Exception as e: ... return ResearchResult(success=False, ...)
HandleException(r) ==
    /\ pc[r] = "except"
    /\ result' = [result EXCEPT
                     ![r] = Some(FailureRecord(exc[r], Elapsed(now, start_time[r]),
                                               locals[r], now))]
    /\ pc' = [pc EXCEPT ![r] = "done"]
    /\ UNCHANGED <<now, envVars, llm_instance, llm_built, progress_callback, start_time,
                   reported, progress_log, kickoffs, stages_run, crew_result, locals,
                   exc, raised_at, llmCallVars, buildVars, uiVars>>

RunStep(r) ==
    \/ Begin(r)
    \/ UpdateProgress(r)
    \/ CreateAgents(r)
    \/ CreateTasks(r)
    \/ CreateCrew(r)
    \/ KickoffCall(r)
    \/ EngineStage(r)
    \/ KickoffReturn(r)
    \/ KickoffRaise(r)
    \/ ExtractOutputs(r)
    \/ ReturnSuccess(r)
    \/ HandleException(r)

\* ------------------------------------------------------- the wall clock
\* datetime.now() is the local wall clock: it advances, and it is set back by
\* a clock adjustment (NTP step, end of daylight saving time)
Running == \E r \in Runs : pc[r] \notin {"absent", "done", "propagated"}

ClockAdvance ==
    /\ Running
    /\ now < MaxClock
    /\ now' = now + 1
    /\ UNCHANGED <<envVars, llm_instance, llm_built, runVars, llmCallVars, buildVars, uiVars>>

ClockSetBack ==
    /\ Running
    /\ now > 0
    /\ now' \in 0..(now - 1)
    /\ UNCHANGED <<envVars, llm_instance, llm_built, runVars, llmCallVars, buildVars, uiVars>>

Next ==
    \/ \E r \in Runs : RunStep(r)
    \/ ClockAdvance
    \/ ClockSetBack

Spec == Init /\ [][Next]_vars

\* ------------------------------------------------ two services, one engine
\* Two CrewService instances of one process, the first built without a
\* subscriber and the second with one, run against the same behaviour of the
\* collaborators.
InitPair ==
    /\ InitNoValidation
    /\ InitNoFrontEnd
    /\ InitRuns({1, 2})
    /\ InitCallers({})
    /\ InitDefaults
    /\ engine \in EngineScripts
    /\ progress_callback = [r \in Runs |-> IF r = 1 THEN "None" ELSE "callable"]

NextPair == \E r \in Runs : RunStep(r)

SpecPair == InitPair /\ [][NextPair]_vars

\* --------------------------------------- one run, any settings and format
\* collaborators that complete every stage, and ones that fail in kickoff
BuildScripts ==
    {[fail_at |-> "none", msg |-> "", stages |-> NumTasks,
      tasks_output |-> Some(<<"a", "b", "a">>)],
     [fail_at |-> "kickoff", msg |-> "boom", stages |-> NumTasks,
      tasks_output |-> None]}

\* one run of a process whose Settings() is any the field validation admits,
\* called with any report_format
InitBuild ==
    /\ InitNoValidation
    /\ InitNoFrontEnd
    /\ InitRuns({1})
    /\ InitCallers({})
    /\ engine \in BuildScripts
    /\ progress_callback = [r \in Runs |-> "None"]
    /\ settings \in SettingsSpace
    /\ report_format \in [Runs -> ReportFormats]
    /\ report_format[2] = "Summary Report"

NextBuild == \E r \in Runs : RunStep(r)

SpecBuild == InitBuild /\ [][NextBuild]_vars

\* ------------------------------------------------- calls of the validators
MaxEmailLen == 5
MaxTopicLen == 6

EmailAlphabet == {"a", "@", ".", " "}
TopicAlphabet == {"a", " ", "\n"}

\* whitespace around an input
Pads == {<< >>, <<" ">>, <<"\t", "\n">>}

LocalParts == {<<"u", "s", "e", "r">>, <<"U", "s", "e", "r">>, <<"a", ".", "b", "_", "c", "%", "d", "+", "e", "-", "1">>, <<"g", "m", "i", "a", "l", ".", "c", "o", "m">>, <<"x", ".", "y", "a", "h", "o", ".", "c", "o", "m">>}

TriedDomains ==
    DOMAIN common_domains \cup {gmail_com, <<"E", "x", "a", "m", "p", "l", "e", ".", "O", "R", "G">>, <<"m", "a", "i", "l", ".", "g", "m", "i", "a", "l", ".", "c", "o", "m">>, <<"x", ".", "c">>}

EmailInputs ==
    SeqsUpTo(EmailAlphabet, MaxEmailLen)
    \cup {p \o l \o <<"@">> \o d \o q :
            p \in Pads, l \in LocalParts, d \in TriedDomains, q \in Pads}

\* topics with and without the markup the validator looks for
MarkupTopics ==
    {<<"<", "S", "c", "R", "i", "P", "t", ">">>,
     <<"J", "a", "v", "a", "S", "c", "r", "i", "p", "t", ":", "a">>,
     <<"a", " ", "o", "n", "L", "o", "a", "d", " ", "=", "b">>,
     <<"b", "u", "t", "t", "o", "n", "=", "1">>,
     <<"a", "a", "a", "a", " ", "o", "n", "1", "_", " ", "\t", "=", "a">>,
     <<"o", "n", " ", "=", "a", "a", "a">>,
     <<"<", "s", "c", "r", "i", "p", "t", ">", "a", "l", "e", "r", "t", "(", "1", ")", "<", "/", "s", "c", "r", "i", "p", "t", ">">>}

TopicInputs == SeqsUpTo(TopicAlphabet, MaxTopicLen) \cup MarkupTopics

\* values of min_length and max_length a caller passes: the defaults and
\* smaller ones, down to no minimum at all
MinLengths == {0, 1, 3, DefaultMinLength}
MaxLengths == {4, DefaultMaxLength}

ValidatorCalls ==
    {[fn |-> "validate_email", email |-> e] : e \in EmailInputs}
    \cup {[fn |-> "validate_topic", topic |-> t, min_length |-> a, max_length |-> b] :
            t \in TopicInputs, a \in MinLengths, b \in MaxLengths}

\* a caller is about to call one validator
InitValidators ==
    /\ InitNoFrontEnd
    /\ InitRuns({})
    /\ InitCallers({})
    /\ InitDefaults
    /\ engine = [fail_at |-> "none", msg |-> "", stages |-> 0, tasks_output |-> Some(<< >>)]
    /\ progress_callback = [r \in Runs |-> "None"]
    /\ vcall \in {Some(c) : c \in ValidatorCalls}
    /\ vret = None

ValidateEmail ==
    /\ vcall # None
    /\ vcall[1].fn = "validate_email"
    /\ vret = None
    /\ vret' = Some(validate_email(vcall[1].email))
    /\ UNCHANGED <<now, envVars, llm_instance, llm_built, runVars, llmCallVars,
                   buildVars, vcall, frontVars>>

ValidateTopic ==
    /\ vcall # None
    /\ vcall[1].fn = "validate_topic"
    /\ vret = None
    /\ vret' = Some(validate_topic(vcall[1].topic, vcall[1].min_length,
                                   vcall[1].max_length))
    /\ UNCHANGED <<now, envVars, llm_instance, llm_built, runVars, llmCallVars,
                   buildVars, vcall, frontVars>>

NextValidators == ValidateEmail \/ ValidateTopic

SpecValidators == InitValidators /\ [][NextValidators]_vars

\* ------------------------------------------ the missing-keys report
\* values of an Optional[str] setting: unset, set to the empty string (a
\* line `NAME=` of the .env file), set to a text
KeyValues == {None, Some(""), Some("k")}

\* every environment as far as the key settings go
KeySettings ==
    {[DefaultSettings EXCEPT !.llm_provider = p, !.google_api_key = g,
                             !.openai_api_key = o, !.serper_api_key = sk,
                             !.email_user = u, !.email_pass = w] :
        p \in {"gemini", "openai"}, g \in KeyValues, o \in KeyValues,
        sk \in KeyValues, u \in KeyValues, w \in KeyValues}

\* what is common to the specifications that make one call of one function
InitOneCall ==
    /\ InitNoFrontEnd
    /\ InitRuns({})
    /\ InitCallers({})
    /\ engine = [fail_at |-> "none", msg |-> "", stages |-> 0, tasks_output |-> Some(<< >>)]
    /\ progress_callback = [r \in Runs |-> "None"]
    /\ report_format = [r \in Runs |-> "Summary Report"]
    /\ vret = None

InitSettings ==
    /\ InitOneCall
    /\ settings \in KeySettings
    /\ vcall = Some([fn |-> "get_missing_configuration"])

\* CrewService.get_missing_configuration
GetMissingConfiguration ==
    /\ vcall # None
    /\ vcall[1].fn = "get_missing_configuration"
    /\ vret = None
    /\ vret' = Some(get_missing_keys(settings))
    /\ UNCHANGED <<now, envVars, llm_instance, llm_built, runVars, llmCallVars,
                   buildVars, vcall, frontVars>>

NextSettings == GetMissingConfiguration

SpecSettings == InitSettings /\ [][NextSettings]_vars

\* ------------------------------------------------ tools/search_tool.py
\* The texts the tool returns are sequences of parts: a literal, or the
\* literal and interpolated parts of an f-string. Every failure literal of
\* _run begins with a cross mark (U+274C) and " Search failed: ", written X
\* here.
FailureMarker == "X Search failed: "

\* the exception classes that leave the try block of _run, each with the
\* classes it is an instance of (requests.exceptions and the builtins)
ExceptionBases ==
    [ReadTimeout |-> {"ReadTimeout", "Timeout", "RequestException", "OSError", "Exception"},
     ConnectTimeout |-> {"ConnectTimeout", "ConnectionError", "Timeout",
                         "RequestException", "OSError", "Exception"},
     ConnectionError |-> {"ConnectionError", "RequestException", "OSError", "Exception"},
     HTTPError |-> {"HTTPError", "RequestException", "OSError", "Exception"},
     JSONDecodeError |-> {"JSONDecodeError", "InvalidJSONError", "RequestException",
                          "OSError", "ValueError", "Exception"},
     ValueError |-> {"ValueError", "Exception"},
     AttributeError |-> {"AttributeError", "Exception"}]

\* the status codes response.raise_for_status() raises HTTPError for; the
\* other exceptions carry no response
ErrorStatusCodes == {400, 401, 403, 404, 429, 500}

\* str(e) of the exceptions that are none of requests' own
UnexpectedTexts == {"", "Expecting value: line 1 column 1 (char 0)",
                    "'list' object has no attribute 'get'"}

NoBody == [knowledgeGraph |-> FALSE, organic |-> 0, relatedSearches |-> 0]

\* response.json() of a successful search: whether it has a knowledge graph,
\* and how many organic results and related searches
SearchBodies == [knowledgeGraph : BOOLEAN, organic : 0..2, relatedSearches : 0..1]

\* What requests.post, raise_for_status, response.json and _format_results
\* do in one call: one of them raises, or all return and the body is
\* formatted.
SearchOutcomes ==
    {[raises |-> Some([cls |-> c, text |-> "", status_code |-> None]), body |-> NoBody] :
        c \in {"ReadTimeout", "ConnectTimeout", "ConnectionError", "JSONDecodeError"}}
    \cup {[raises |-> Some([cls |-> "HTTPError", text |-> "", status_code |-> Some(n)]),
           body |-> NoBody] : n \in ErrorStatusCodes}
    \cup {[raises |-> Some([cls |-> c, text |-> t, status_code |-> None]), body |-> NoBody] :
            c \in {"ValueError", "AttributeError"}, t \in UnexpectedTexts}
    \cup {[raises |-> None, body |-> b] : b \in SearchBodies}

\* SearchTool._format_results
format_results(results, max_results) ==
    LET shown_results == IF results.organic < max_results THEN results.organic ELSE max_results
        formatted_parts ==
            (IF results.knowledgeGraph THEN <<"Knowledge Graph">> ELSE << >>)
            \o (IF results.organic > 0
                  THEN <<"Search Results">> \o [i \in 1..shown_results |-> <<"result", i>>]
                  ELSE << >>)
            \o (IF results.relatedSearches > 0 THEN <<"Related Searches">> ELSE << >>)
    IN  IF formatted_parts = << >>
          THEN <<"No results found for this search query.">>
          ELSE formatted_parts

SearchHandlersNetworkFirst == <<"RequestException", "Timeout", "HTTPError", "Exception">>

\* the except clauses of _run, in source order
SearchHandlers == <<"Timeout", "HTTPError", "RequestException", "Exception">>

\* what the except clause for class h returns for the exception e
HandlerText(h, e) ==
    CASE h = "Timeout" -> <<FailureMarker, "Request timed out. Please try again.">>
      [] h = "HTTPError" ->
            IF e.status_code = Some(403)
              THEN <<FailureMarker, "Invalid API key or quota exceeded">>
              ELSE <<FailureMarker, "HTTP error ", e.status_code[1]>>
      [] h = "RequestException" ->
            <<FailureMarker, "Network error. Please check your connection.">>
      [] h = "Exception" -> <<FailureMarker, e.text>>

\* SearchTool._run: the text returned or the exception raised, and the number
\* of requests sent
SearchRun(max_results, s, net) ==
    IF ~TruthyStr(s.serper_api_key)
      THEN [returned |-> Some(<<FailureMarker, "Serper API key not configured">>),
            raised |-> None, requests |-> 0]
    ELSE IF net.raises = None
      THEN [returned |-> Some(format_results(net.body, max_results)),
            raised |-> None, requests |-> 1]
    ELSE LET e == net.raises[1]
             matching == {i \in DOMAIN SearchHandlers :
                            SearchHandlers[i] \in ExceptionBases[e.cls]}
         IN  IF matching = {}
               THEN [returned |-> None, raised |-> net.raises, requests |-> 1]
               ELSE [returned |-> Some(HandlerText(SearchHandlers[SetMin(matching)], e)),
                     raised |-> None, requests |-> 1]

DefaultMaxResults == 5

InitSearch ==
    /\ InitOneCall
    /\ \E k \in KeyValues : settings = [DefaultSettings EXCEPT !.serper_api_key = k]
    /\ \E m \in {1, DefaultMaxResults}, o \in SearchOutcomes :
          vcall = Some([fn |-> "_run", max_results |-> m, net |-> o])

\* SearchTool._run
Search ==
    /\ vcall # None
    /\ vcall[1].fn = "_run"
    /\ vret = None
    /\ vret' = Some(SearchRun(vcall[1].max_results, settings, vcall[1].net))
    /\ UNCHANGED <<now, envVars, llm_instance, llm_built, runVars, llmCallVars,
                   buildVars, vcall, frontVars>>

NextSearch == Search

SpecSearch == InitSearch /\ [][NextSearch]_vars

\* ------------------------------------- ui/components.py: downloads
\* topics a stored record is displayed with
ElectricVehicleTopic ==
    <<"E", "l", "e", "c", "t", "r", "i", "c", " ", "v", "e", "h", "i", "c",
      "l", "e", " ", "b", "a", "t", "t", "e", "r", "y", " ", "t", "r", "e",
      "n", "d", "s", " ", "2", "0", "2", "5">>

DownloadTopics ==
    {ElectricVehicleTopic,
    <<"A", "I", ":", " ", "w", "h", "a", "t", "'", "s", " ", "n", "e", "x",
      "t", "?">>,
    <<" ", "G", "P", "T", "-", "4", "_", "t", "u", "r", "b", "o", " ">>,
    <<"C", "o", "m", "p", "a", "r", "i", "n", "g", " ", "s", "o", "l", "i",
      "d", " ", "s", "t", "a", "t", "e", " ", "a", "n", "d", " ", "l", "i",
      "t", "h", "i", "u", "m", " ", "i", "o", "n", " ", "b", "a", "t", "t",
      "e", "r", "i", "e", "s", " ", "i", "n", " ", "2", "0", "2", "5">>,
    <<"T", "h", "e", " ", "s", "t", "a", "t", "e", " ", "o", "f", " ", "o",
      "p", "e", "n", " ", "s", "o", "u", "r", "c", "e", " ", "l", "a", "r",
      "g", "e", " ", "l", "a", "n", "g", "u", "a", "g", "e", " ", "m", "o",
      "d", "e", "l", "s", " ", "i", "n", " ", " ", "2", "0", "2", "5">>,
    <<"C", "+", "+", " ", "&", " ", "C", "#">>}

\* the records execute_research_workflow returns: a failure with its message,
\* or a success whose research and summary outputs are unset, empty or a text
DownloadRecords ==
    {ResearchResult([success |-> FALSE, error_message |-> Some(m), execution_time |-> 1], 0) :
        m \in {"", "boom"}}
    \cup {ResearchResult([success |-> TRUE, research_output |-> ro, summary_output |-> so,
                          email_output |-> None, execution_time |-> 1], 0) :
            ro \in {None, Some(""), Some("research")},
            so \in {None, Some(""), Some("summary")}}

\* c.isalnum() or c in " -_"
IsFileNameChar(c) == IsLetter(c) \/ c \in Digits \/ c \in {" ", "-", "_"}

FileNameTopicLength == 50

\* safe_topic of render_download_buttons
safe_topic(topic) ==
    LET joined == [i \in 1..Len(topic) |->
                      IF IsFileNameChar(topic[i]) THEN topic[i] ELSE "_"]
    IN  strip(SubSeq(joined, 1, IF Len(joined) < FileNameTopicLength
                                  THEN Len(joined) ELSE FileNameTopicLength))

\* render_download_buttons: the download buttons rendered, in column order
render_download_buttons(res, topic) ==
    IF ~res.success THEN << >>
    ELSE (IF TruthyStr(res.research_output)
            THEN <<[label |-> "Download Research Report",
                    data |-> res.research_output[1],
                    file_name |-> <<"research_report_", safe_topic(topic), ".md">>,
                    mime |-> "text/markdown"]>>
            ELSE << >>)
         \o (IF TruthyStr(res.summary_output)
               THEN <<[label |-> "Download Summary",
                       data |-> res.summary_output[1],
                       file_name |-> <<"summary_", safe_topic(topic), ".md">>,
                       mime |-> "text/markdown"]>>
               ELSE << >>)

InitDownloads ==
    /\ InitOneCall
    /\ settings = DefaultSettings
    /\ \E r \in DownloadRecords, t \in DownloadTopics :
          vcall = Some([fn |-> "render_download_buttons", result |-> r, topic |-> t])

\* render_download_buttons
RenderDownloadButtons ==
    /\ vcall # None
    /\ vcall[1].fn = "render_download_buttons"
    /\ vret = None
    /\ vret' = Some(render_download_buttons(vcall[1].result, vcall[1].topic))
    /\ UNCHANGED <<now, envVars, llm_instance, llm_built, runVars, llmCallVars,
                   buildVars, vcall, frontVars>>

NextDownloads == RenderDownloadButtons

SpecDownloads == InitDownloads /\ [][NextDownloads]_vars

\* ------------------------------------------------------ main.py: main()
\* One browser session. Every interaction runs main() from the top with the
\* widgets' current values; st.session_state lives across the script runs.
MaxInteractions == 2

\* what the user typed into the two text inputs
TypedTopics == {<< >>, <<"a", "b">>, <<" ", "A", "I", " ", " ", "i", "n", " ", "c", "a", "r", "e", " ">>}
TypedEmails == {<< >>, <<"u", "@", "g", "m", "a", "l", ".", "c", "o", "m">>, <<" ", "U", "@", "E", "x", ".", "O", "R", "G", "\n">>}

\* render_config_panel(): the text inputs, the slider at its initial value
\* and the selectbox
Configs ==
    [topic : TypedTopics, recipient_email : TypedEmails, num_results : {3},
     report_format : {"Summary Report", "Executive Brief"}]

\* environments the process is started in: every key set, for either
\* provider, and some key missing
FrontSettings ==
    LET full == [DefaultSettings EXCEPT !.google_api_key = Some("g"),
                                        !.serper_api_key = Some("s"),
                                        !.email_user = Some("u"),
                                        !.email_pass = Some("p")]
    IN  {full,
         [full EXCEPT !.llm_provider = "openai", !.google_api_key = None,
                      !.openai_api_key = Some("o")],
         [full EXCEPT !.serper_api_key = None],
         [full EXCEPT !.llm_provider = "openai"],
         [full EXCEPT !.email_user = None, !.email_pass = Some("")]}

\* the first interaction of a session
InitFront ==
    /\ InitNoValidation
    /\ InitRuns({})
    /\ InitCallers({})
    /\ engine \in BuildScripts
    /\ progress_callback = [r \in Runs |-> "None"]
    /\ settings \in FrontSettings
    /\ report_format = [r \in Runs |-> "Summary Report"]
    /\ fpc = "check_configuration"
    /\ interactions = 1
    /\ config \in {Some(c) : c \in Configs}
    /\ run_button \in BOOLEAN
    /\ missing_keys = None
    /\ email_result = None
    /\ topic_result = None
    /\ session_state = [result |-> None, topic |-> None]
    /\ shown = << >>
    /\ workflow_calls = << >>

\* what a front-end step leaves alone in the service layer
serviceVars == <<now, engine, settings, llm_instance, llm_built, llmCallVars, vcall, vret>>

\* main() returns: the widget values and the locals of the script run are gone
ScriptEnds ==
    /\ fpc' = "done"
    /\ config' = None
    /\ run_button' = FALSE
    /\ missing_keys' = None
    /\ email_result' = None
    /\ topic_result' = None

\* if not check_configuration(): return
CheckConfiguration ==
    /\ fpc = "check_configuration"
    /\ LET missing == get_missing_keys(settings)
       IN  IF missing # << >>
           THEN /\ shown' = Append(shown, <<"configuration_warning", missing>>)
                /\ ScriptEnds
           ELSE /\ missing_keys' = Some(missing)
                /\ fpc' = "button"
                /\ UNCHANGED <<shown, config, run_button, email_result, topic_result>>
    /\ UNCHANGED <<serviceVars, report_format, runVars, buildVars, interactions,
                   session_state, workflow_calls>>

\* if run_button: if not config["topic"] or not config["recipient_email"]: ...
HandleButton ==
    /\ fpc = "button"
    /\ IF ~run_button
       THEN /\ fpc' = "display"
            /\ UNCHANGED shown
       ELSE IF config[1].topic = << >> \/ config[1].recipient_email = << >>
       THEN /\ shown' = Append(shown, <<"Please fill in all required fields!">>)
            /\ fpc' = "display"
       ELSE /\ fpc' = "validate_email"
            /\ UNCHANGED shown
    /\ UNCHANGED <<serviceVars, report_format, runVars, buildVars, interactions, config,
                   run_button, missing_keys, email_result, topic_result, session_state,
                   workflow_calls>>

\* run_research: email_result = validate_email(config["recipient_email"])
RunResearchValidateEmail ==
    /\ fpc = "validate_email"
    /\ email_result' = Some(validate_email(config[1].recipient_email))
    /\ IF ~email_result'[1].is_valid
       THEN /\ shown' = Append(shown, <<"Invalid email: ", email_result'[1].error>>)
            /\ fpc' = "display"
       ELSE /\ fpc' = "validate_topic"
            /\ UNCHANGED shown
    /\ UNCHANGED <<serviceVars, report_format, runVars, buildVars, interactions, config,
                   run_button, missing_keys, topic_result, session_state,
                   workflow_calls>>

\* run_research: topic_result = validate_topic(config["topic"])
RunResearchValidateTopic ==
    /\ fpc = "validate_topic"
    /\ topic_result' = Some(validate_topic(config[1].topic, DefaultMinLength,
                                           DefaultMaxLength))
    /\ IF ~topic_result'[1].is_valid
       THEN /\ shown' = Append(shown, <<"Invalid topic: ", topic_result'[1].error>>)
            /\ fpc' = "display"
       ELSE /\ fpc' = "execute"
            /\ UNCHANGED shown
    /\ UNCHANGED <<serviceVars, report_format, runVars, buildVars, interactions, config,
                   run_button, missing_keys, email_result, session_state,
                   workflow_calls>>

WorkflowArgumentsRaw(cfg, er, tr) ==
    [topic |-> cfg.topic,
     recipient_email |-> cfg.recipient_email,
     report_format |-> cfg.report_format,
     num_results |-> cfg.num_results]

\* the keyword arguments run_research calls execute_research_workflow with
WorkflowArguments(cfg, er, tr) ==
    [topic |-> tr.value,
     recipient_email |-> er.value,
     report_format |-> cfg.report_format,
     num_results |-> cfg.num_results]

\* run_research: crew_service = CrewService(progress_callback=update_progress)
\* and the call crew_service.execute_research_workflow(topic=..., ...)
RunResearchExecute ==
    /\ fpc = "execute"
    /\ pc' = [pc EXCEPT ![1] = "idle"]
    /\ progress_callback' = [progress_callback EXCEPT ![1] = "callable"]
    /\ start_time' = [start_time EXCEPT ![1] = 0]
    /\ reported' = [reported EXCEPT ![1] = << >>]
    /\ progress_log' = [progress_log EXCEPT ![1] = << >>]
    /\ kickoffs' = [kickoffs EXCEPT ![1] = 0]
    /\ stages_run' = [stages_run EXCEPT ![1] = 0]
    /\ crew_result' = [crew_result EXCEPT ![1] = None]
    /\ locals' = [locals EXCEPT ![1] = LocalsInit]
    /\ exc' = [exc EXCEPT ![1] = None]
    /\ raised_at' = [raised_at EXCEPT ![1] = "none"]
    /\ result' = [result EXCEPT ![1] = None]
    /\ agents' = [agents EXCEPT ![1] = None]
    /\ tasks' = [tasks EXCEPT ![1] = None]
    /\ crew' = [crew EXCEPT ![1] = None]
    /\ LET kwargs == WorkflowArguments(config[1], email_result[1], topic_result[1])
       IN  /\ report_format' = [report_format EXCEPT ![1] = kwargs.report_format]
           /\ workflow_calls' = Append(workflow_calls, kwargs)
    /\ fpc' = "in_workflow"
    /\ UNCHANGED <<serviceVars, interactions, config, run_button, missing_keys,
                   email_result, topic_result, session_state, shown>>

\* a store of the topic that was passed to the workflow
StoredTopicSanitized(cfg, tr) == tr.value

\* the topic run_research stores: config["topic"]
StoredTopic(cfg, tr) == cfg.topic

\* run_research: st.session_state.result = result;
\* st.session_state.topic = config["topic"]
RunResearchStore ==
    /\ fpc = "in_workflow"
    /\ pc[1] = "done"
    /\ session_state' = [result |-> result[1],
                         topic |-> Some(StoredTopic(config[1], topic_result[1]))]
    /\ fpc' = "display"
    /\ UNCHANGED <<serviceVars, report_format, runVars, buildVars, interactions, config,
                   run_button, missing_keys, email_result, topic_result, shown,
                   workflow_calls>>

\* if "result" in st.session_state: render_results(st.session_state.result);
\* render_download_buttons(st.session_state.result, st.session_state.get("topic",
\* "research")); then render_footer()
Display ==
    /\ fpc = "display"
    /\ shown' = IF session_state.result # None
                THEN Append(shown, <<"results", session_state.result[1],
                                     render_download_buttons(session_state.result[1],
                                                             session_state.topic[1])>>)
                ELSE shown
    /\ ScriptEnds
    /\ UNCHANGED <<serviceVars, report_format, runVars, buildVars, interactions,
                   session_state, workflow_calls>>

\* the next interaction of the session starts the script again
Rerun ==
    /\ fpc = "done"
    /\ interactions < MaxInteractions
    /\ interactions' = interactions + 1
    /\ config' \in {Some(c) : c \in Configs}
    /\ run_button' \in BOOLEAN
    /\ shown' = << >>
    /\ fpc' = "check_configuration"
    /\ UNCHANGED <<serviceVars, report_format, runVars, buildVars, missing_keys,
                   email_result, topic_result, session_state, workflow_calls>>

FrontStep ==
    \/ CheckConfiguration
    \/ HandleButton
    \/ RunResearchValidateEmail
    \/ RunResearchValidateTopic
    \/ RunResearchExecute
    \/ RunResearchStore
    \/ Display
    \/ Rerun

NextFront ==
    \/ FrontStep
    \/ fpc = "in_workflow" /\ RunStep(1)

SpecFront == InitFront /\ [][NextFront]_vars

\* ------------------------------------------- AgentFactory.get_llm / reset_llm
\* a call of get_llm or reset_llm as recorded when it returns
GetEvent(ret, built) == [op |-> "get_llm", ret |-> ret, built |-> built]
ResetEvent == [op |-> "reset_llm", ret |-> None, built |-> FALSE]

CallsStarted == Len(llm_calls) + Cardinality({c \in Callers : cpc[c] \notin {"absent", "idle"}})

\* a caller enters get_llm
GetLlmCall(c) ==
    /\ cpc[c] = "idle"
    /\ CallsStarted < MaxCalls
    /\ cpc' = [cpc EXCEPT ![c] = "check"]
    /\ UNCHANGED <<now, envVars, llm_instance, llm_built, runVars, buildVars, llm_local, llm_calls, uiVars>>

\* if cls._llm_instance is None:
GetLlmCheck(c) ==
    /\ cpc[c] = "check"
    /\ cpc' = [cpc EXCEPT ![c] = IF CacheEmpty(llm_instance) THEN "construct" ELSE "return"]
    /\ UNCHANGED <<now, envVars, llm_instance, llm_built, runVars, buildVars, llm_local, llm_calls, uiVars>>

\* settings = get_settings(); LLM(model=..., temperature=..., max_retries=5)
GetLlmConstruct(c) ==
    /\ cpc[c] = "construct"
    /\ llm_built' = llm_built + 1
    /\ llm_local' = [llm_local EXCEPT ![c] = NewLlm(llm_built + 1)]
    /\ cpc' = [cpc EXCEPT ![c] = "assign"]
    /\ UNCHANGED <<now, envVars, llm_instance, runVars, buildVars, llm_calls, uiVars>>

\* cls._llm_instance = <the handle just built>
GetLlmAssign(c) ==
    /\ cpc[c] = "assign"
    /\ llm_instance' = llm_local[c]
    /\ cpc' = [cpc EXCEPT ![c] = "return"]
    /\ UNCHANGED <<now, envVars, llm_built, runVars, buildVars, llm_local, llm_calls, uiVars>>

\* return cls._llm_instance
GetLlmReturn(c) ==
    /\ cpc[c] = "return"
    /\ llm_calls' = Append(llm_calls, GetEvent(llm_instance, llm_local[c] # None))
    /\ llm_local' = [llm_local EXCEPT ![c] = None]
    /\ cpc' = [cpc EXCEPT ![c] = "idle"]
    /\ UNCHANGED <<now, envVars, llm_instance, llm_built, runVars, buildVars, uiVars>>

\* a reset_llm that leaves the cached handle in place
ResetValueKept(inst) == inst

\* the cache after reset_llm
ResetValue(inst) == None

\* reset_llm: cls._llm_instance = None
ResetLlm(c) ==
    /\ cpc[c] = "idle"
    /\ CallsStarted < MaxCalls
    /\ llm_instance' = ResetValue(llm_instance)
    /\ llm_calls' = Append(llm_calls, ResetEvent)
    /\ UNCHANGED <<now, envVars, llm_built, runVars, buildVars, cpc, llm_local, uiVars>>

LlmStep(c) ==
    \/ GetLlmCall(c)
    \/ GetLlmCheck(c)
    \/ GetLlmConstruct(c)
    \/ GetLlmAssign(c)
    \/ GetLlmReturn(c)
    \/ ResetLlm(c)

\* one caller issuing get_llm and reset_llm calls one after the other; no
\* workflow runs
InitLLM ==
    /\ InitNoValidation
    /\ InitNoFrontEnd
    /\ InitRuns({})
    /\ InitCallers({1})
    /\ InitDefaults
    /\ engine = [fail_at |-> "none", msg |-> "", stages |-> 0, tasks_output |-> Some(<< >>)]
    /\ progress_callback = [r \in Runs |-> "None"]

NextLLM == \E c \in Callers : LlmStep(c)

SpecLLM == InitLLM /\ [][NextLLM]_vars

\* two threads of the process (two browser sessions) calling get_llm and
\* reset_llm, their steps interleaved
InitLLMConc ==
    /\ InitNoValidation
    /\ InitNoFrontEnd
    /\ InitRuns({})
    /\ InitCallers({1, 2})
    /\ InitDefaults
    /\ engine = [fail_at |-> "none", msg |-> "", stages |-> 0, tasks_output |-> Some(<< >>)]
    /\ progress_callback = [r \in Runs |-> "None"]

SpecLLMConc == InitLLMConc /\ [][NextLLM]_vars

\* --------------------------------------------- concurrent workflow runs
\* Two sessions of one process run execute_research_workflow at the same
\* time, one thread each. The three create_*_agent calls of a run each call
\* AgentFactory.get_llm, whose steps interleave with the other thread's.

\* the role create_agents builds next, given the roles built so far
NextRole(built) ==
    IF built = None THEN "researcher"
    ELSE IF "summarizer" \notin DOMAIN built[1] THEN "summarizer"
    ELSE "email_agent"

\* create_agent evaluates llm=cls.get_llm(): the thread enters get_llm
AgentGetLlm(r) ==
    /\ pc[r] = "create_agents"
    /\ GetLlmCall(r)

\* get_llm returns cls._llm_instance and Agent(...) is constructed with it;
\* after the third role the run goes on to _update_progress(25, ...)
AgentConstructed(r) ==
    /\ pc[r] = "create_agents"
    /\ cpc[r] = "return"
    /\ llm_calls' = Append(llm_calls, GetEvent(llm_instance, llm_local[r] # None))
    /\ llm_local' = [llm_local EXCEPT ![r] = None]
    /\ cpc' = [cpc EXCEPT ![r] = "idle"]
    /\ LET role == NextRole(agents[r])
           agent == CASE role = "researcher" ->
                            [researcher |-> create_researcher_agent(llm_instance, settings)]
                      [] role = "summarizer" ->
                            [summarizer |-> create_summarizer_agent(report_format[r],
                                                                    llm_instance, settings)]
                      [] role = "email_agent" ->
                            [email_agent |-> create_email_agent(llm_instance, settings)]
       IN  /\ agents' = [agents EXCEPT ![r] =
                            IF agents[r] = None THEN Some(agent) ELSE Some(agent @@ agents[r][1])]
           /\ pc' = [pc EXCEPT ![r] = IF role = "email_agent" THEN "progress_25" ELSE @]
    /\ UNCHANGED <<now, envVars, llm_instance, llm_built, progress_callback, start_time,
                   reported, progress_log, kickoffs, stages_run, crew_result, locals,
                   exc, raised_at, result, tasks, crew, uiVars>>

ConcurrentRunStep(r) ==
    \/ Begin(r)
    \/ UpdateProgress(r)
    \/ AgentGetLlm(r)
    \/ GetLlmCheck(r)
    \/ GetLlmConstruct(r)
    \/ GetLlmAssign(r)
    \/ AgentConstructed(r)
    \/ CreateTasks(r)
    \/ CreateCrew(r)
    \/ KickoffCall(r)
    \/ EngineStage(r)
    \/ KickoffReturn(r)
    \/ KickoffRaise(r)
    \/ ExtractOutputs(r)
    \/ ReturnSuccess(r)
    \/ HandleException(r)

InitConcurrentRuns ==
    /\ InitNoValidation
    /\ InitNoFrontEnd
    /\ InitRuns({1, 2})
    /\ InitCallers({1, 2})
    /\ InitDefaults
    /\ engine \in BuildScripts
    /\ progress_callback = [r \in Runs |-> "None"]

NextConcurrentRuns == \E r \in Runs : ConcurrentRunStep(r)

SpecConcurrentRuns == InitConcurrentRuns /\ [][NextConcurrentRuns]_vars

\* ================================================================ claims
IsPrefix(s, t) == Len(s) <= Len(t) /\ \A i \in 1..Len(s) : s[i] = t[i]

Returned(r) == pc[r] = "done"
Record(r) == result[r][1]
Slots(rec) == <<rec.research_output, rec.summary_output, rec.email_output>>
\* the list the engine handed back to run r (empty when the envelope has none)
OutputList(r) ==
    IF crew_result[r][1].tasks_output = None THEN << >>
    ELSE crew_result[r][1].tasks_output[1]

\* C1: execute_research_workflow always returns a ResearchResult and never
\* lets an exception out, whichever step raises: no run is ever left by a
\* propagating exception, an exception in flight is always on its way to the
\* handler, every run that has ended holds a record, and a run that has begun
\* and not ended can always take its next step.
C1_AlwaysReturnsRecord ==
    \A r \in Runs :
        /\ pc[r] # "propagated"
        /\ (Returned(r) => result[r] # None /\ Record(r).success \in BOOLEAN)
        /\ (~Returned(r) /\ exc[r] # None => pc[r] = "except")
        /\ (pc[r] \notin {"absent", "done"} => ENABLED RunStep(r))

\* a run ended in a failed record after its subscriber raised at milestone 100
C1_Witness ==
    \E r \in Runs :
        /\ Returned(r)
        /\ raised_at[r] = "callback"
        /\ reported[r] = Milestones
        /\ Record(r).success = FALSE

\* C2: in every returned record error_message is present exactly when success
\* is false, and a failed record's error_message is a non-empty text.
C2_ErrorMessageNonEmpty ==
    \A r \in Runs :
        Returned(r) =>
            /\ (Record(r).error_message # None <=> ~Record(r).success)
            /\ (~Record(r).success =>
                    /\ Record(r).error_message # None
                    /\ Record(r).error_message[1] # "")

\* C3: in every returned record execution_time is the clock reading at
\* completion (or at the failure point) minus the reading at the start, and
\* when crew.kickoff() raised after at least one stage it is greater than 0.
C3_ElapsedPositive ==
    \A r \in Runs :
        Returned(r) =>
            /\ (Record(r).success =>
                    Record(r).execution_time = locals[r].execution_time)
            /\ (~Record(r).success =>
                    Record(r).execution_time = Record(r).timestamp - start_time[r])
            /\ (raised_at[r] = "kickoff" /\ stages_run[r] >= 1 =>
                    Record(r).execution_time > 0)

\* C4: a successful record maps the engine's outputs by position: slot i holds
\* the raw text of output i for every i below min(n, 3), a slot never holds
\* anything but the output of its own index, and outputs from index 3 on are
\* in no slot.
C4_PositionalMapping ==
    \A r \in Runs :
        Returned(r) /\ Record(r).success =>
            \A i \in 1..NumTasks :
                IF i <= Len(OutputList(r))
                THEN Slots(Record(r))[i] = Some(OutputList(r)[i])
                ELSE Slots(Record(r))[i] = None

\* a successful record made from four outputs, the first two of them different
C4_Witness ==
    \E r \in Runs :
        /\ Returned(r)
        /\ Record(r).success
        /\ Len(OutputList(r)) = NumTasks + 1
        /\ OutputList(r)[1] # OutputList(r)[2]
        /\ OutputList(r)[4] # OutputList(r)[3]

\* C5: an envelope with fewer than 3 outputs (or none, or no tasks_output)
\* never makes the run fail: extraction does not raise, the record is
\* successful unless a subscriber raised, the slots of the missing stages are
\* unset, and the set slots form a prefix of (research, summarize, deliver).
C5_ShortOutputTolerated ==
    \A r \in Runs :
        crew_result[r] # None /\ Len(OutputList(r)) < NumTasks =>
            /\ raised_at[r] \in {"none", "callback"}
            /\ (Returned(r) /\ raised_at[r] = "none" =>
                    /\ Record(r).success
                    /\ \A i \in 1..NumTasks :
                          Slots(Record(r))[i] # None <=> i <= Len(OutputList(r))
                    /\ \A i \in 2..NumTasks :
                          Slots(Record(r))[i] # None => Slots(Record(r))[i - 1] # None)

\* a successful record made from a single output
C5_Witness ==
    \E r \in Runs :
        /\ Returned(r)
        /\ Record(r).success
        /\ Len(OutputList(r)) = 1
        /\ Record(r).research_output # None
        /\ Record(r).summary_output = None

\* C6: every failed record has all three stage outputs unset, however far the
\* run had got.
C6_FailedRecordHasNoOutputs ==
    \A r \in Runs :
        Returned(r) /\ ~Record(r).success =>
            \A i \in 1..NumTasks : Slots(Record(r))[i] = None

\* a failed record of a run whose engine call raised after two stages
C6_Witness ==
    \E r \in Runs :
        /\ Returned(r)
        /\ ~Record(r).success
        /\ raised_at[r] = "kickoff"
        /\ stages_run[r] = 2

\* C7: the percentages the subscriber is invoked with, and those logged, are
\* always a prefix of <<10, 25, 40, 50, 90, 100>>; a run that returned success
\* has reported all six; a run whose engine call raised has reported exactly
\* <<10, 25, 40, 50>>.
C7_MilestonesInOrder ==
    \A r \in Runs :
        /\ IsPrefix(reported[r], Milestones)
        /\ IsPrefix(progress_log[r], Milestones)
        /\ (Returned(r) /\ Record(r).success =>
                /\ progress_log[r] = Milestones
                /\ (HasSubscriber(progress_callback[r]) => reported[r] = Milestones))
        /\ (raised_at[r] = "kickoff" =>
                /\ progress_log[r] = SubSeq(Milestones, 1, 4)
                /\ (HasSubscriber(progress_callback[r]) =>
                        reported[r] = SubSeq(Milestones, 1, 4)))

\* a successful run whose subscriber was invoked six times
C7_Witness ==
    \E r \in Runs :
        /\ Returned(r)
        /\ Record(r).success
        /\ reported[r] = Milestones

C8_EngineWindow ==
    \A r \in Runs :
        /\ kickoffs[r] <= 1
        /\ (kickoffs[r] = 1 => IsPrefix(SubSeq(Milestones, 1, 4), progress_log[r]))
        /\ (pc[r] = "engine" =>
                /\ progress_log[r] = SubSeq(Milestones, 1, 4)
                /\ reported[r] \in {<< >>, SubSeq(Milestones, 1, 4)})
        /\ (Len(progress_log[r]) > 4 \/ Len(reported[r]) > 4 =>
                kickoffs[r] = 1 /\ crew_result[r] # None)
        /\ (raised_at[r] = "kickoff" => pc[r] \in {"except", "done"})

C8_EngineStep ==
    \A r \in Runs :
        /\ (pc[r] = "engine" /\ pc'[r] = "engine" =>
                reported'[r] = reported[r] /\ progress_log'[r] = progress_log[r])
        /\ (raised_at[r] = "kickoff" =>
                kickoffs'[r] = kickoffs[r] /\ stages_run'[r] = stages_run[r])

\* C8: the engine is called at most once per run, after milestone 50 and
\* before milestone 90, and nothing is reported while the call is in progress;
\* once the call has raised, the engine is not called again and runs no
\* further stage.
C8_EngineCalledOnce == [] C8_EngineWindow /\ [][C8_EngineStep]_vars

\* a run that ended after its single engine call raised past the first stage
C8_Witness ==
    \E r \in Runs :
        /\ Returned(r)
        /\ raised_at[r] = "kickoff"
        /\ kickoffs[r] = 1
        /\ stages_run[r] >= 1

\* C9: a service built without a subscriber ends in the same record outcome
\* (success flag, stage outputs, error message) as one whose subscriber never
\* raised, for the same behaviour of the collaborators; without a subscriber
\* nothing is invoked and no milestone raises, while every milestone is still
\* logged.
C9_AbsentSubscriberIsNoOp ==
    /\ reported[1] = << >>
    /\ raised_at[1] # "callback"
    /\ (Returned(1) /\ Returned(2) /\ raised_at[2] # "callback" =>
            /\ Record(1).success = Record(2).success
            /\ Slots(Record(1)) = Slots(Record(2))
            /\ Record(1).error_message = Record(2).error_message
            /\ progress_log[1] = progress_log[2])

\* both services ended successfully on two outputs, the subscriber of the
\* second invoked at all six milestones
C9_Witness ==
    /\ Returned(1) /\ Returned(2)
    /\ Record(1).success /\ Record(2).success
    /\ Record(1).summary_output # None
    /\ reported[2] = Milestones

GetIndexes == {i \in 1..Len(llm_calls) : llm_calls[i].op = "get_llm"}
ResetBetween(i, j) == \E k \in (i + 1)..(j - 1) : llm_calls[k].op = "reset_llm"
\* j is the first get_llm after some reset_llm
FirstAfterReset(j) ==
    /\ j \in GetIndexes
    /\ \E k \in 1..(j - 1) :
          /\ llm_calls[k].op = "reset_llm"
          /\ \A m \in (k + 1)..(j - 1) : llm_calls[m].op = "reset_llm"

\* C10: in a sequence of get_llm and reset_llm calls, two get_llm calls with
\* no reset_llm between them return the identical handle and the later one
\* constructs nothing; the first get_llm after a reset_llm constructs a handle
\* and returns one that no earlier call returned.
C10_CachedUntilReset ==
    /\ \A i, j \in GetIndexes :
          i < j /\ ~ResetBetween(i, j) =>
              /\ llm_calls[i].ret # None
              /\ llm_calls[i].ret = llm_calls[j].ret
              /\ ~llm_calls[j].built
    /\ \A j \in GetIndexes :
          FirstAfterReset(j) =>
              /\ llm_calls[j].built
              /\ llm_calls[j].ret # None
              /\ \A i \in GetIndexes : i < j => llm_calls[i].ret # llm_calls[j].ret

\* get_llm, get_llm, reset_llm, get_llm, get_llm
C10_Witness ==
    /\ Len(llm_calls) = 5
    /\ llm_calls[1].op = "get_llm"
    /\ llm_calls[2].op = "get_llm"
    /\ llm_calls[3].op = "reset_llm"
    /\ llm_calls[4].op = "get_llm"
    /\ llm_calls[5].op = "get_llm"

NoResetCalled == \A i \in 1..Len(llm_calls) : llm_calls[i].op # "reset_llm"

\* C11: when several callers run get_llm concurrently on an empty cache and
\* reset_llm is never called, the handle is constructed at most once and every
\* call returns the identical handle.
C11_SingleInitialization ==
    NoResetCalled =>
        /\ llm_built <= 1
        /\ \A i, j \in GetIndexes :
              /\ llm_calls[i].ret # None
              /\ llm_calls[i].ret = llm_calls[j].ret

\* the role constructors have run in r
AgentsBuilt(r) == agents[r] # None

\* the configuration carries a global cap: `config_cap or role_default`
\* takes its left operand
CapPresent(s) == Truthy(s.max_agent_iterations)

\* C12: the budget of every role is the global cap when the cap is present
\* and the role's own max_iter exactly when it is absent, and the settings
\* constraints admit a configuration in which the role's own max_iter is used.
C12_CapOrRoleDefault ==
    /\ \A r \in Runs : AgentsBuilt(r) =>
          /\ agents[r][1].researcher.max_iter =
                IF CapPresent(settings) THEN settings.max_agent_iterations
                ELSE researcher_config.max_iter
          /\ agents[r][1].summarizer.max_iter =
                IF CapPresent(settings) THEN settings.max_agent_iterations
                ELSE summarizer_config(report_format[r]).max_iter
          /\ agents[r][1].email_agent.max_iter =
                IF CapPresent(settings) THEN settings.max_agent_iterations
                ELSE email_config.max_iter
    /\ \E s \in SettingsSpace : ~CapPresent(s)

\* C13: under the default configuration the roles of a run carry the budgets
\* Researcher 5, Summarizer 3, Email-Sender 2.
C13_RoleBudgetsUnderDefaults ==
    \A r \in Runs : (AgentsBuilt(r) /\ settings = DefaultSettings) =>
        /\ agents[r][1].researcher.max_iter = 5
        /\ agents[r][1].summarizer.max_iter = 3
        /\ agents[r][1].email_agent.max_iter = 2

\* the key both format tables are read with for a report_format
SelectedFormat(fmt) == IF fmt \in FormatKeys THEN fmt ELSE "Summary Report"

TasksBuilt(r) == tasks[r] # None

\* C14: for every report_format, the block in the Summarizer's backstory and
\* the instructions in the summarize task are those of one and the same
\* format: report_format itself if it is one of the three known formats, and
\* Summary Report otherwise.
C14_SameFormatBlock ==
    \A r \in Runs : TasksBuilt(r) =>
        LET block == agents[r][1].summarizer.backstory[2]
            instructions == tasks[r][1].summarization_task.description[2]
        IN  /\ block = FORMAT_REQUIREMENTS[SelectedFormat(report_format[r])]
            /\ instructions = format_instructions[SelectedFormat(report_format[r])]
            /\ block[2] = instructions[2]

C14_Witness ==
    \E r \in Runs :
        /\ TasksBuilt(r)
        /\ report_format[r] \notin FormatKeys
        /\ tasks[r][1].summarization_task.description[2][2] = "Summary Report"

CrewBuilt(r) == crew[r] # None

\* the upstream references of a task, none when it has no context
Upstream(t) == IF t.context = None THEN << >> ELSE t.context[1]

\* C15: the task list of the crew is <research, summarize, deliver>, linked
\* research: none, summarize: [research], deliver: [summarize]; every
\* upstream reference is a task strictly earlier in the list; each task is
\* assigned the agent built for its stage.
C15_LinearTaskChain ==
    \A r \in Runs : CrewBuilt(r) =>
        LET T == crew[r][1].tasks
        IN  /\ Len(T) = NumTasks
            /\ <<T[1].description[1], T[2].description[1], T[3].description[1]>>
                  = <<"research", "summarize", "deliver">>
            /\ Upstream(T[1]) = << >>
            /\ Upstream(T[2]) = <<T[1]>>
            /\ Upstream(T[3]) = <<T[2]>>
            /\ \A i \in 1..Len(T) : \A k \in 1..Len(Upstream(T[i])) :
                  \E j \in 1..(i - 1) : T[j] = Upstream(T[i])[k]
            /\ T[1].agent = agents[r][1].researcher
            /\ T[2].agent = agents[r][1].summarizer
            /\ T[3].agent = agents[r][1].email_agent
            /\ T[1].agent.role = researcher_config.role
            /\ T[2].agent.role = summarizer_config(report_format[r]).role
            /\ T[3].agent.role = email_config.role

C15_Witness ==
    \E r \in Runs :
        /\ CrewBuilt(r)
        /\ pc[r] = "engine"
        /\ Len(Upstream(crew[r][1].tasks[3])) = 1

LastCall == workflow_calls[Len(workflow_calls)]

\* C16: the workflow, and with it the engine, runs only inside an invocation
\* made by run_research, and run_research invokes it only when the missing
\* keys list is empty and validate_email and validate_topic both returned
\* is_valid, passing the validators' sanitized values and not the typed ones.
C16_PipelineStartsOnlyOnValidInput ==
    /\ pc[1] # "absent" => workflow_calls # << >>
    /\ pc[1] \notin {"absent", "done"} => fpc = "in_workflow"
    /\ fpc = "in_workflow" =>
          /\ get_missing_keys(settings) = << >>
          /\ missing_keys = Some(<< >>)
          /\ email_result = Some(validate_email(config[1].recipient_email))
          /\ email_result[1].is_valid
          /\ topic_result = Some(validate_topic(config[1].topic, DefaultMinLength,
                                                DefaultMaxLength))
          /\ topic_result[1].is_valid
          /\ LastCall.recipient_email = lower(strip(config[1].recipient_email))
          /\ LastCall.topic = collapse_whitespace(strip(config[1].topic))
          /\ report_format[1] = config[1].report_format

C16_Witness ==
    /\ fpc = "in_workflow"
    /\ pc[1] = "engine"
    /\ LastCall.topic # config[1].topic
    /\ LastCall.recipient_email # config[1].recipient_email

\* the validator fn was called and has returned
Validated(fn) == vcall # None /\ vret # None /\ vcall[1].fn = fn

\* the argument, trimmed and lowercased as validate_email does
CleanEmail == lower(strip(vcall[1].email))

\* C17: an input that is empty, or empty once trimmed, is rejected by both
\* validators with the 'required' error.
C17_BlankIsRequired ==
    /\ (Validated("validate_email") /\ strip(vcall[1].email) = << >>) =>
          /\ ~vret[1].is_valid
          /\ vret[1].error = Some(<<"Email address is required">>)
    /\ (Validated("validate_topic") /\ strip(vcall[1].topic) = << >>) =>
          /\ ~vret[1].is_valid
          /\ vret[1].error = Some(<<"Research topic is required">>)

\* C18 as stated: every email that matches the pattern once trimmed and
\* lowercased is returned valid, with that value and no error.
C18_PatternMatchIsValid ==
    (Validated("validate_email") /\ EmailPatternMatches(CleanEmail)) =>
        /\ vret[1].is_valid
        /\ vret[1].value = CleanEmail
        /\ vret[1].error = None

\* the part of a pattern-matching email after the @
DomainOf(e) == split(e, "@")[2]
LocalOf(e) == split(e, "@")[1]

\* C18: every email that matches the pattern once trimmed and lowercased, and
\* whose domain is no key of the typo table, is returned valid, with the
\* trimmed lowercased input as value and no error.
C18_ValidUnlessTypoDomain ==
    (/\ Validated("validate_email")
     /\ EmailPatternMatches(CleanEmail)
     /\ DomainOf(CleanEmail) \notin DOMAIN common_domains) =>
        /\ vret[1].is_valid
        /\ vret[1].value = CleanEmail
        /\ vret[1].error = None

C18_Witness ==
    /\ Validated("validate_email")
    /\ vret[1].is_valid
    /\ vret[1].value # vcall[1].email
    /\ lower(vcall[1].email) # vcall[1].email
    /\ strip(vcall[1].email) # vcall[1].email

\* C19: a pattern-matching email whose domain is a key of the typo table is
\* rejected, its value is the trimmed lowercased email, uncorrected, and the
\* error suggests the same local part with the domain replaced by the table's
\* correction, whatever the local part.
C19_SuggestionKeepsLocalPart ==
    (/\ Validated("validate_email")
     /\ EmailPatternMatches(CleanEmail)
     /\ DomainOf(CleanEmail) \in DOMAIN common_domains) =>
        /\ ~vret[1].is_valid
        /\ vret[1].value = CleanEmail
        /\ vret[1].error =
              Some(<<"Did you mean '",
                     LocalOf(CleanEmail) \o <<"@">>
                         \o common_domains[DomainOf(CleanEmail)],
                     "'?">>)

\* the topic as validate_topic sanitizes it
CleanTopic == collapse_whitespace(strip(vcall[1].topic))

MinLengthError(n) == Some(<<"Topic must be at least ", n, " characters long">>)

\* C20: for a non-empty topic the minimum-length test is made on the
\* sanitized topic and is exact: shorter than min_length, it fails with the
\* min-length error however long the raw input was; at min_length or more it
\* does not, and a sanitized length of exactly min_length that min_length
\* alone could reject is returned valid.
C20_MinLengthBoundary ==
    (Validated("validate_topic") /\ vcall[1].topic # << >>) =>
        /\ Len(CleanTopic) < vcall[1].min_length =>
              /\ ~vret[1].is_valid
              /\ vret[1].error = MinLengthError(vcall[1].min_length)
        /\ Len(CleanTopic) >= vcall[1].min_length =>
              vret[1].error # MinLengthError(vcall[1].min_length)
        /\ (/\ Len(CleanTopic) = vcall[1].min_length
            /\ Len(CleanTopic) <= vcall[1].max_length
            /\ ~dangerous_patterns(CleanTopic)) =>
              /\ vret[1].is_valid
              /\ vret[1].value = CleanTopic

C20_Witness ==
    /\ Validated("validate_topic")
    /\ vcall[1].min_length = DefaultMinLength
    /\ Len(vcall[1].topic) > vcall[1].min_length
    /\ Len(CleanTopic) = vcall[1].min_length - 1
    /\ vret[1].error = MinLengthError(vcall[1].min_length)

MaxLengthError(n) == Some(<<"Topic must be less than ", n, " characters">>)

\* C21: validate_topic accepts only topics whose sanitized length is less
\* than max_length: a sanitized length of exactly max_length is rejected
\* with the max-length error.
C21_MaxLengthExclusive ==
    (/\ Validated("validate_topic")
     /\ vcall[1].topic # << >>
     /\ Len(CleanTopic) >= vcall[1].min_length) =>
        /\ vret[1].is_valid => Len(CleanTopic) < vcall[1].max_length
        /\ Len(CleanTopic) = vcall[1].max_length =>
              /\ ~vret[1].is_valid
              /\ vret[1].error = MaxLengthError(vcall[1].max_length)

\* sub, given in lower case, occurs in t at position i in some letter case
OccursIgnoringCase(t, sub, i) ==
    /\ i + Len(sub) - 1 <= Len(t)
    /\ \A k \in 1..Len(sub) : lower_char(t[i + k - 1]) = sub[k]

HasScriptTag(t) ==
    \E i \in 1..Len(t) : OccursIgnoringCase(t, <<"<", "s", "c", "r", "i", "p", "t">>, i)

HasJavascriptScheme(t) ==
    \E i \in 1..Len(t) :
        OccursIgnoringCase(t, <<"j", "a", "v", "a", "s", "c", "r", "i", "p", "t", ":">>, i)

\* on, one or more word characters, optional whitespace, =
HasHandlerSignature(t) ==
    \E i \in 1..Len(t) :
        /\ OccursIgnoringCase(t, <<"o", "n">>, i)
        /\ \E j \in (i + 2)..Len(t) : \E e \in (j + 1)..Len(t) :
              /\ \A k \in (i + 2)..j : IsWordChar(t[k])
              /\ \A k \in (j + 1)..(e - 1) : t[k] \in Whitespace
              /\ t[e] = "="

HasSignature(t) == HasScriptTag(t) \/ HasJavascriptScheme(t) \/ HasHandlerSignature(t)

\* C22: a topic of acceptable sanitized length that contains <script,
\* javascript: or an on<word>= signature, in any letter case, is rejected
\* with "Topic contains invalid characters", and a topic returned valid
\* contains none of them.
C22_SignaturesRejected ==
    (Validated("validate_topic") /\ vcall[1].topic # << >>) =>
        /\ (/\ Len(CleanTopic) >= vcall[1].min_length
            /\ Len(CleanTopic) <= vcall[1].max_length
            /\ HasSignature(CleanTopic)) =>
              /\ ~vret[1].is_valid
              /\ vret[1].value = CleanTopic
              /\ vret[1].error = Some(<<"Topic contains invalid characters">>)
        /\ vret[1].is_valid =>
              /\ ~HasSignature(CleanTopic)
              /\ ~HasSignature(vret[1].value)

C22_Witness ==
    /\ Validated("validate_topic")
    /\ HasScriptTag(CleanTopic)
    /\ lower(CleanTopic) # CleanTopic
    /\ vret[1].error = Some(<<"Topic contains invalid characters">>)

\* the elements of a list
Range(f) == {f[i] : i \in DOMAIN f}

\* the name get_missing_keys reports the LLM key of the selected provider by
LlmKeyName(s) == IF s.llm_provider = "openai" THEN "OPENAI_API_KEY" ELSE "GOOGLE_API_KEY"

\* the required settings that are absent, when a setting counts as absent if
\* unset, or else (emptyToo) if unset or empty
AbsentNames(s, emptyToo) ==
    LET absent(k) == k = None \/ (emptyToo /\ k = Some(""))
    IN  (IF absent(current_api_key(s)) THEN {LlmKeyName(s)} ELSE {})
        \cup (IF absent(s.serper_api_key) THEN {"SERPER_API_KEY"} ELSE {})
        \cup (IF absent(s.email_user) THEN {"EMAIL_USER"} ELSE {})
        \cup (IF absent(s.email_pass) THEN {"EMAIL_PASS"} ELSE {})

\* C23: for every combination of present and absent settings the report
\* names exactly the absent ones, each once, under one notion of absent
\* (unset, or unset-or-empty), and it is empty exactly when
\* validate_required_keys reports llm, search and email all true.
C23_ReportsExactlyTheAbsent ==
    (vcall # None /\ vret # None /\ vcall[1].fn = "get_missing_configuration") =>
        /\ \E emptyToo \in BOOLEAN : Range(vret[1]) = AbsentNames(settings, emptyToo)
        /\ Len(vret[1]) = Cardinality(Range(vret[1]))
        /\ vret[1] = << >> <=>
              /\ validate_required_keys(settings).llm
              /\ validate_required_keys(settings).search
              /\ validate_required_keys(settings).email

\* what happened in a call of _run, by the search key and by the classes of
\* the exception that left the try block
SearchCategory(s, net) ==
    IF ~TruthyStr(s.serper_api_key) THEN "missing key"
    ELSE IF net.raises = None THEN "results"
    ELSE LET e == net.raises[1]
             bases == ExceptionBases[e.cls]
         IN  IF "Timeout" \in bases THEN "timeout"
             ELSE IF "HTTPError" \in bases
               THEN (IF e.status_code = Some(403) THEN "HTTP 403" ELSE "other HTTP error")
             ELSE IF "RequestException" \in bases THEN "network error"
             ELSE "unexpected error"

FailureCategories ==
    {"missing key", "timeout", "HTTP 403", "other HTTP error", "network error",
     "unexpected error"}

\* the messages of each category of failure
CategoryTexts(c) ==
    CASE c = "missing key" -> {<<FailureMarker, "Serper API key not configured">>}
      [] c = "timeout" -> {<<FailureMarker, "Request timed out. Please try again.">>}
      [] c = "HTTP 403" -> {<<FailureMarker, "Invalid API key or quota exceeded">>}
      [] c = "other HTTP error" ->
            {<<FailureMarker, "HTTP error ", n>> : n \in ErrorStatusCodes \ {403}}
      [] c = "network error" ->
            {<<FailureMarker, "Network error. Please check your connection.">>}
      [] c = "unexpected error" -> {<<FailureMarker, t>> : t \in UnexpectedTexts}

SearchReturned == vcall # None /\ vret # None /\ vcall[1].fn = "_run"

\* C24: _run never raises; every category of failure returns a text that
\* begins with the failure marker and is a message of that category and of no
\* other (a timeout the timeout message, an HTTP error an HTTP message); with
\* a missing key no request is sent.
C24_FailuresAreDistinctTexts ==
    SearchReturned =>
        LET c == SearchCategory(settings, vcall[1].net)
            r == vret[1]
        IN  /\ r.raised = None
            /\ r.returned # None
            /\ c \in FailureCategories =>
                  /\ r.returned[1][1] = FailureMarker
                  /\ \A d \in FailureCategories : r.returned[1] \in CategoryTexts(d) <=> d = c
            /\ c = "missing key" => r.requests = 0

C24_Witness ==
    /\ SearchReturned
    /\ settings.serper_api_key = Some("k")
    /\ vcall[1].net.raises # None
    /\ vcall[1].net.raises[1].cls = "ConnectTimeout"
    /\ vret[1].returned = Some(<<FailureMarker, "Request timed out. Please try again.">>)
    /\ vret[1].requests = 1

ElectricVehicleName ==
    <<"E", "l", "e", "c", "t", "r", "i", "c", "_", "v", "e", "h", "i", "c",
      "l", "e", "_", "b", "a", "t", "t", "e", "r", "y", "_", "t", "r", "e",
      "n", "d", "s", "_", "2", "0", "2", "5">>

DownloadsRendered == vcall # None /\ vret # None /\ vcall[1].fn = "render_download_buttons"

\* the topic with every character other than alphanumerics, space, hyphen and
\* underscore removed, then cut to 50 characters
StrippedTopic(topic) ==
    LET kept == SelectSeq(topic, IsFileNameChar)
    IN  SubSeq(kept, 1, IF Len(kept) < FileNameTopicLength
                          THEN Len(kept) ELSE FileNameTopicLength)

ButtonsNamed(prefix) == {i \in DOMAIN vret[1] : vret[1][i].file_name[1] = prefix}

\* C25: downloads are offered only for a successful record and only for a
\* non-empty research or summary output; they are named research_report_<t>.md
\* and summary_<t>.md with <t> the topic stripped of every character other
\* than alphanumerics, space, hyphen and underscore and cut to 50 characters;
\* for the topic "Electric vehicle battery trends 2025" <t> is
\* Electric_vehicle_battery_trends_2025.
C25_DownloadNames ==
    DownloadsRendered =>
        LET res == vcall[1].result
            topic == vcall[1].topic
        IN  /\ vret[1] # << >> => res.success
            /\ ButtonsNamed("research_report_") # {} => TruthyStr(res.research_output)
            /\ ButtonsNamed("summary_") # {} => TruthyStr(res.summary_output)
            /\ \A i \in DOMAIN vret[1] :
                  /\ vret[1][i].file_name[1] \in {"research_report_", "summary_"}
                  /\ vret[1][i].file_name[2] = StrippedTopic(topic)
                  /\ vret[1][i].file_name[3] = ".md"
                  /\ topic = ElectricVehicleTopic =>
                        vret[1][i].file_name[2] = ElectricVehicleName

\* run r assembled its tasks and its crew from the role and task instances
\* it created itself
UsesOwnInstances(r) ==
    /\ tasks[r] # None =>
          /\ tasks[r][1].research_task.agent = agents[r][1].researcher
          /\ tasks[r][1].summarization_task.agent = agents[r][1].summarizer
          /\ tasks[r][1].email_task.agent = agents[r][1].email_agent
    /\ crew[r] # None =>
          /\ Range(crew[r][1].agents) = Range(agents[r][1])
          /\ Range(crew[r][1].tasks) = Range(tasks[r][1])

\* C26: concurrent runs each create and use their own three role instances
\* and three task instances, sharing only the model handle; once the handle
\* has been constructed no step of a run replaces or clears it.
C26_RunsShareOnlyTheHandle ==
    /\ [](\A r \in Runs : UsesOwnInstances(r))
    /\ [][llm_instance # None => llm_instance' = llm_instance]_vars

\* C27: every get_llm call returns a constructed handle, never an absent
\* one, also when reset_llm runs between the call's cache check or assignment
\* and its return.
C27_GetLlmNeverReturnsNone ==
    \A i \in 1..Len(llm_calls) : llm_calls[i].op = "get_llm" => llm_calls[i].ret # None

AllMilestones == <<10, 25, 40, 50, 90, 100>>

\* the subscriber of run r raised when invoked with 90 or with 100
RaisedLate(r) ==
    /\ raised_at[r] = "callback"
    /\ reported[r] # << >>
    /\ reported[r][Len(reported[r])] \in {90, 100}

\* C28: when the subscriber raises at milestone 90 or 100, after the engine
\* returned its outputs, the run returns a failed record whose error_message
\* is the subscriber's exception message and whose three outputs are unset; a
\* run with a subscriber returns success only if the subscriber was invoked
\* six times and returned normally each time.
C28_LateSubscriberFailure ==
    \A r \in Runs :
        Returned(r) =>
            /\ RaisedLate(r) =>
                  /\ crew_result[r] # None
                  /\ ~Record(r).success
                  /\ Record(r).error_message = exc[r]
                  /\ \A i \in 1..NumTasks : Slots(Record(r))[i] = None
            /\ (Record(r).success /\ HasSubscriber(progress_callback[r])) =>
                  /\ reported[r] = AllMilestones
                  /\ progress_log[r] = AllMilestones

\* the subscriber raised "boom" at 100, after three outputs were extracted
C28_Witness ==
    /\ Returned(1)
    /\ RaisedLate(1)
    /\ reported[1] = AllMilestones
    /\ exc[1] = Some("boom")
    /\ locals[1].research_output # None
    /\ locals[1].email_output # None
    /\ Record(1).error_message = Some("boom")

\* the script run has rejected the submission in run_research
Rejects ==
    /\ fpc \in {"validate_email", "validate_topic"}
    /\ fpc' = "display"

\* what a step of the front end does to st.session_state and to the display
C29_Step ==
    /\ Rejects => session_state' = session_state
    /\ session_state' # session_state =>
          /\ fpc = "in_workflow"
          /\ pc[1] = "done"
          /\ result[1] # None
          /\ session_state'.result = result[1]
          /\ session_state'.topic = Some(config[1].topic)
          /\ workflow_calls[Len(workflow_calls)].topic =
                validate_topic(config[1].topic, DefaultMinLength, DefaultMaxLength).value
    /\ (fpc = "display" /\ session_state.result # None) =>
          /\ session_state' = session_state
          /\ shown' # << >>
          /\ shown'[Len(shown')][1] = "results"
          /\ shown'[Len(shown')][2] = session_state.result[1]

\* C29: a submission rejected by validation leaves the stored result and
\* topic unchanged and the stored record is displayed again; result and topic
\* are written only together, after execute_research_workflow returned, and
\* the stored topic is the submitted text, not the sanitized topic the
\* workflow was called with.
C29_SessionStateFrame ==
    /\ [](session_state.result = None <=> session_state.topic = None)
    /\ [][C29_Step]_vars

\* the second submission was rejected for its topic and the record of the
\* first, stored under a topic that sanitization changes, was displayed again
C29_Witness ==
    /\ interactions = 2
    /\ fpc = "done"
    /\ Len(workflow_calls) = 1
    /\ session_state.result # None
    /\ session_state.topic # Some(workflow_calls[1].topic)
    /\ Len(shown) = 2
    /\ shown[1][1] = "Invalid topic: "
    /\ shown[2][1] = "results"
    /\ shown[2][2] = session_state.result[1]

\* C30: validating the value of a valid result again, with the same bounds,
\* gives a valid result with the same value; and a result is valid exactly
\* when it carries no error.
C30_IdempotentOnOwnOutput ==
    /\ Validated("validate_email") =>
          /\ vret[1].is_valid <=> vret[1].error = None
          /\ vret[1].is_valid =>
                validate_email(vret[1].value) = ValidationResult(TRUE, vret[1].value, None)
    /\ Validated("validate_topic") =>
          /\ vret[1].is_valid <=> vret[1].error = None
          /\ vret[1].is_valid =>
                validate_topic(vret[1].value, vcall[1].min_length, vcall[1].max_length)
                    = ValidationResult(TRUE, vret[1].value, None)

====
